---- MODULE Spec2Model ----
(***************************************************************************)
(* A model of the Monkey interpreter: the tree-walking evaluator           *)
(* (src/src/evaluator, src/src/object), the lexer (src/src/lexer) and the  *)
(* parser (src/src/parser) with the printing of the AST (src/src/ast).     *)
(*                                                                         *)
(* Rc handles are indices into tables: st.envs (Environment), st.arrays    *)
(* (ArrayObj.elements), st.maps (HashMapObj.map) and st.funcs              *)
(* (FunctionObj).  Every evaluator function of eval.rs is an operator of   *)
(* the same name that takes the store `st` and returns R(value, store).    *)
(***************************************************************************)
EXTENDS Integers, Sequences, FiniteSets, TLC

(***************************************************************************)
(* Bounds of the model.                                                    *)
(***************************************************************************)
\* iterations of one `while` statement that are followed before the run is
\* recorded as not terminating
MaxIter == 4
\* number of HashMap allocations whose iteration order is drawn in Init
MaxMaps == 2
\* calls of Lexer::next_token that are followed after the input has ended
MaxPastEnd == 3

VARIABLES
  pid,          \* the program under evaluation: an index into Programs
  pc,           \* eval_program: index of the next top-level statement
  heap,         \* the store: environments, arrays, maps, functions, output
  result,       \* eval_program: the local `result`
  status,       \* "running", "returned", "panicked" or "diverged"
  prependMaps,  \* the HashMaps whose hasher puts a new key first
  litRev,       \* iteration order of HashLiteral.pairs (a HashMap): reversed
  lexer,        \* a Lexer that is driven on its own
  toks,         \* the tokens `lexer` has returned, in order
  parser,       \* the Parser of parse_program
  program,      \* parse_program: program.statements
  parsing       \* parse_program: "idle", "parsing" (in the loop) or "parsed"

\* the state of the evaluator and the state of the front end
evalVars == <<pid, pc, heap, result, status, prependMaps, litRev>>

frontVars == <<lexer, toks, parser, program, parsing>>

vars ==
  <<pid, pc, heap, result, status, prependMaps, litRev, lexer, toks, parser,
    program, parsing>>

(***************************************************************************)
(* Values: object/mod.rs AllObjects.  One record shape for every variant:  *)
(*   t  the variant, n its integer payload (Integer value, Boolean 0/1,    *)
(*   handle of an Array, HashMap or Function), s its text payload (String  *)
(*   text, Error message, builtin name), r the number of ReturnValue boxes *)
(*   wrapped around the variant.                                           *)
(***************************************************************************)
Obj(t, n, s) == [t |-> t, n |-> n, s |-> s, r |-> 0]

\* Option::None of Option<AllObjects>
NONE == Obj("NONE", 0, "")

Integer(v) == Obj("INTEGER", v, "")
StringObj(s) == Obj("STRING", 0, s)
Boolean(b) == Obj("BOOLEAN", IF b THEN 1 ELSE 0, "")
ArrayObj(ref) == Obj("ARRAY", ref, "")
HashMapObj(ref) == Obj("HASH_MAP", ref, "")
FunctionObj(ref) == Obj("FUNCTION", ref, "")
BuiltinFunctionObj(name) == Obj("BUILTIN", 0, name)
new_error(message) == Obj("ERROR", 0, message)

\* AllObjects::ReturnValue(Box::new(v))
ReturnValue(v) == [v EXCEPT !.r = @ + 1]
\* *r_val : the content of the outermost box
Unbox(v) == [v EXCEPT !.r = @ - 1]
IsReturnValue(v) == v.r > 0

TRUE_OBJ == Boolean(TRUE)
FALSE_OBJ == Boolean(FALSE)
NULL == Obj("NULL", 0, "")

object_type(v) ==
  IF v.r > 0 THEN "RETURN"
  ELSE IF v.t = "BUILTIN" THEN "FUNCTION"
  ELSE v.t

is_integer(v) == object_type(v) = "INTEGER"
is_boolean(v) == object_type(v) = "BOOLEAN"
is_string(v) == object_type(v) = "STRING"
is_error(v) == object_type(v) = "ERROR"

R(v, st) == [v |-> v, st |-> st]

(***************************************************************************)
(* evaluator/errors.rs                                                     *)
(***************************************************************************)
type_mismatch(left, operator, right) ==
  new_error("type mismatch: " \o object_type(left) \o " " \o operator \o " "
            \o object_type(right))

unknown_operator(left, operator, right) ==
  new_error("unknown operator: " \o object_type(left) \o " " \o operator
            \o " " \o object_type(right))

unknown_prefix_operator(operator, right) ==
  new_error("unknown operator: " \o operator \o object_type(right))

identifier_not_found(ident) == new_error("identifier not found: " \o ident)

incorrect_arg_num(expected, actual) ==
  new_error("incorrect number of arguments supplied, expected: "
            \o ToString(expected) \o ", supplied " \o ToString(actual))

argument_not_found(expected_arg, expected_arg_type) ==
  new_error("expected argument " \o expected_arg \o " of type "
            \o expected_arg_type)

\* the article is chosen on the first letter of the type name
a_or_an(word) == IF word \in {"INTEGER", "ERROR", "ARRAY"} THEN "an" ELSE "a"

unexpected_argument_type(expected, actual) ==
  new_error("expected " \o expected \o " argument, but received "
            \o a_or_an(object_type(actual)) \o " " \o object_type(actual))

indexing_error == new_error("list index out of range")

incorrect_index_argument ==
  new_error("list index argument should be a positive integer")

\* errors::sleep_arg_error is called by builtins.rs but its definition is not
\* part of the sources at hand; the text is the one the specification gives
sleep_arg_error == new_error("sleep argument outside unsigned range")

(***************************************************************************)
(* object/environment.rs                                                   *)
(***************************************************************************)
\* Environment { store, outer }: outer = 0 is Option::None
EmptyStore == [k \in {} |-> NONE]

Environment(outer) == [store |-> EmptyStore, outer |-> outer]

\* Environment::new() / new_enclosed_environment(outer): the new handle is
\* Len(st.envs) + 1
new_enclosed_environment(outer, st) ==
  [st EXCEPT !.envs = Append(@, Environment(outer))]

NewEnvId(st) == Len(st.envs) + 1

RECURSIVE Environment_get(_, _, _)
Environment_get(env, name, st) ==
  LET e == st.envs[env] IN
  IF name \in DOMAIN e.store THEN e.store[name]
  ELSE IF e.outer # 0 THEN Environment_get(e.outer, name, st)
  ELSE NONE

\* HashMap::insert / HashMap::remove on a store
StoreInsert(store, name, value) ==
  [k \in DOMAIN store \cup {name} |-> IF k = name THEN value ELSE store[k]]

StoreRemove(store, name) == [k \in DOMAIN store \ {name} |-> store[k]]
\* Environment::set writing the enclosing scope when that scope already
\* binds the name
Environment_set_WritesOuter(env, name, value, st) ==
  LET outer == st.envs[env].outer
      target == IF outer # 0 /\ name \in DOMAIN st.envs[outer].store
                  THEN outer ELSE env
  IN R(value, [st EXCEPT !.envs[target].store = StoreInsert(@, name, value)])

\* Environment::set storing a deep copy of an Array instead of the handle
Environment_set_Copies(env, name, value, st) ==
  IF value.t = "ARRAY" /\ value.r = 0
    THEN R(value,
           [st EXCEPT !.arrays = Append(@, st.arrays[value.n]),
                      !.envs[env].store =
                         StoreInsert(@, name, ArrayObj(Len(st.arrays) + 1))])
    ELSE R(value, [st EXCEPT !.envs[env].store = StoreInsert(@, name, value)])

Environment_set(env, name, value, st) ==
  R(value, [st EXCEPT !.envs[env].store = StoreInsert(@, name, value)])
\* Environment::replace without the removal of the entry it inserted to
\* find out whether the store had the name
RECURSIVE Environment_replace_KeepsInsert(_, _, _, _)
Environment_replace_KeepsInsert(env, name, value, st) ==
  LET e == st.envs[env]
      obj_is_none == name \notin DOMAIN e.store
      inserted == [st EXCEPT !.envs[env].store = StoreInsert(@, name, value)]
  IN IF ~obj_is_none THEN R(value, inserted)
     ELSE IF e.outer # 0
       THEN Environment_replace_KeepsInsert(e.outer, name, value, inserted)
     ELSE R(NONE, inserted)

\* the value is first inserted, and removed again when the store had no
\* entry of that name, before the outer scope is tried
RECURSIVE Environment_replace(_, _, _, _)
Environment_replace(env, name, value, st) ==
  LET e == st.envs[env]
      obj_is_none == name \notin DOMAIN e.store
      inserted == [st EXCEPT !.envs[env].store = StoreInsert(@, name, value)]
      removed == [inserted EXCEPT !.envs[env].store = StoreRemove(@, name)]
  IN IF ~obj_is_none THEN R(value, inserted)
     ELSE IF e.outer # 0 THEN Environment_replace(e.outer, name, value, removed)
     ELSE R(NONE, removed)

(***************************************************************************)
(* Text: Rust compares and sorts strings byte by byte.  Alphabet lists the *)
(* characters the programs of the model use, in ASCII order.               *)
(***************************************************************************)
Alphabet == " 0123456789:_abcdefghijklmnopqrstuvwxyz"

CharAt(s, i) == SubSeq(s, i, i)

Rank(c) ==
  IF \E i \in 1..Len(Alphabet) : CharAt(Alphabet, i) = c
    THEN CHOOSE i \in 1..Len(Alphabet) : CharAt(Alphabet, i) = c
    ELSE 0

RECURSIVE StrLess(_, _)
StrLess(a, b) ==
  IF Len(b) = 0 THEN FALSE
  ELSE IF Len(a) = 0 THEN TRUE
  ELSE IF CharAt(a, 1) = CharAt(b, 1)
    THEN StrLess(SubSeq(a, 2, Len(a)), SubSeq(b, 2, Len(b)))
  ELSE Rank(CharAt(a, 1)) < Rank(CharAt(b, 1))

\* Vec::sort on strings
RECURSIVE SortStrings(_)
SortStrings(S) ==
  IF S = {} THEN << >>
  ELSE LET m == CHOOSE x \in S : \A y \in S : ~StrLess(y, x)
       IN <<m>> \o SortStrings(S \ {m})

\* Environment::all_vars
Environment_all_vars(env, st) == SortStrings(DOMAIN st.envs[env].store)

\* join of a sequence of strings
RECURSIVE Join(_, _)
Join(strs, sep) ==
  IF Len(strs) = 0 THEN ""
  ELSE IF Len(strs) = 1 THEN strs[1]
  ELSE strs[1] \o sep \o Join(Tail(strs), sep)

\* str::replace(from, to) for a two-character pattern
RECURSIVE Replace2(_, _, _)
Replace2(s, from, to) ==
  IF Len(s) < 2 THEN s
  ELSE IF SubSeq(s, 1, 2) = from
    THEN to \o Replace2(SubSeq(s, 3, Len(s)), from, to)
  ELSE CharAt(s, 1) \o Replace2(SubSeq(s, 2, Len(s)), from, to)

\* str::lines: the text between line feeds, without a last empty line
RECURSIVE SplitLines(_, _)
SplitLines(s, line) ==
  IF Len(s) = 0 THEN IF Len(line) = 0 THEN << >> ELSE <<line>>
  ELSE IF CharAt(s, 1) = "\n"
    THEN <<line>> \o SplitLines(SubSeq(s, 2, Len(s)), "")
  ELSE SplitLines(SubSeq(s, 2, Len(s)), line \o CharAt(s, 1))

\* the order in which an iteration over HashLiteral.pairs visits the pairs
PairOrder(pairs) ==
  IF litRev THEN [i \in 1..Len(pairs) |-> pairs[Len(pairs) + 1 - i]]
  ELSE pairs

\* Display for WhileStatement, after the grammar
\* while := 'while' '(' expression ')' block
WhileText(condition, body) == "while (" \o condition \o ") { " \o body \o " }"

\* Display of the AST nodes (ast/expressions.rs, ast/statements.rs); a node
\* is a record whose field k names the variant, see the constructors below.
\* A BlockStatement is the node of variant Block.
RECURSIVE to_string(_)
to_string(node) ==
  CASE node.k = "Absent" -> ""
    [] node.k = "Identifier" -> node.value
    [] node.k = "IntegerLiteral" -> ToString(node.value)
    [] node.k = "StringLiteral" -> node.value
    [] node.k = "Boolean" -> IF node.value THEN "true" ELSE "false"
    [] node.k = "NullLiteral" -> "null"
    [] node.k = "PrefixExpression" ->
         IF node.right.k = "Absent" THEN ""
         ELSE "(" \o node.operator \o to_string(node.right) \o ")"
    [] node.k = "InfixExpression" ->
         "(" \o to_string(node.left) \o " " \o node.operator \o " "
         \o (IF node.right.k = "Absent" THEN ""
             ELSE to_string(node.right) \o ")")
    [] node.k = "Assignment" ->
         node.ident \o " = " \o to_string(node.value)
    [] node.k = "IfExpression" ->
         LET lines == SplitLines(
                        to_string([k |-> "Block",
                                   statements |-> node.consequence]), "")
         IN "if " \o to_string(node.condition) \o " { \n"
            \o Join([i \in 1..Len(lines) |-> "  " \o lines[i] \o ";\n"], "")
            \o "}"
            \o (IF node.has_alternative
                  THEN "else " \o to_string([k |-> "Block",
                                             statements |-> node.alternative])
                  ELSE "")
    [] node.k = "FunctionLiteral" ->
         "fn(" \o Join(node.parameters, ",") \o ")"
         \o to_string([k |-> "Block", statements |-> node.body])
    [] node.k = "CallExpression" ->
         to_string(node.function) \o "("
         \o Join([i \in 1..Len(node.arguments) |->
                    to_string(node.arguments[i])], ", ") \o ")"
    [] node.k = "ArrayLiteral" ->
         "[" \o Join([i \in 1..Len(node.elements) |->
                        to_string(node.elements[i])], ", ") \o "]"
    [] node.k = "IndexExpression" ->
         "(" \o to_string(node.left) \o "[" \o to_string(node.index) \o "])"
    [] node.k = "RangeExpression" ->
         "(" \o to_string(node.left) \o "[" \o to_string(node.left_index)
         \o ":" \o to_string(node.right_index) \o "])"
    [] node.k = "HashLiteral" ->
         "{" \o Join([i \in 1..Len(node.pairs) |->
                        to_string(PairOrder(node.pairs)[i].key) \o ":"
                        \o to_string(PairOrder(node.pairs)[i].value)], ", ")
         \o "}"
    [] node.k = "Let" ->
         "let " \o node.name \o " = " \o to_string(node.value) \o ";"
    [] node.k = "Return" ->
         "return {}" \o to_string(node.return_value) \o ";"
    [] node.k = "Expression" -> to_string(node.expression)
    [] node.k = "Block" ->
         Join([i \in 1..Len(node.statements) |->
                 to_string(node.statements[i])], "\n")
    [] node.k = "While" ->
         WhileText(to_string(node.condition),
                   to_string([k |-> "Block", statements |-> node.body]))

\* Display for BlockStatement
BlockText(body) == to_string([k |-> "Block", statements |-> body])

RECURSIVE inspect(_, _)
inspect(v, st) ==
  CASE v.t = "INTEGER" -> ToString(v.n)
    [] v.t = "STRING" -> Replace2(Replace2(v.s, "\\n", "\n"), "\\t", "\t")
    [] v.t = "BOOLEAN" -> IF v.n = 1 THEN "true" ELSE "false"
    [] v.t = "NULL" -> "null"
    [] v.t = "ERROR" -> "Error: " \o v.s
    [] v.t = "FUNCTION" ->
         "fn(" \o Join(st.funcs[v.n].parameters, ", ") \o "){\n"
         \o BlockText(st.funcs[v.n].body) \o "\n}"
    [] v.t = "BUILTIN" -> v.s
    [] v.t = "ARRAY" ->
         "[" \o Join([i \in 1..Len(st.arrays[v.n]) |->
                        inspect(st.arrays[v.n][i], st)], ", ") \o "]"
    [] v.t = "HASH_MAP" ->
         "{ " \o Join([i \in 1..Len(st.maps[v.n]) |->
                         inspect(st.maps[v.n][i].k, st) \o ":"
                         \o inspect(st.maps[v.n][i].v, st)], ", ") \o " }"
    [] OTHER -> ""

\* PartialEq of AllObjects (derived), with the hand-written instances of
\* FunctionObj (name), ArrayObj (elements) and HashMapObj (inspect)
RECURSIVE ObjEq(_, _, _)
ObjEq(a, b, st) ==
  /\ a.t = b.t
  /\ a.r = b.r
  /\ CASE a.t = "ARRAY" ->
            /\ Len(st.arrays[a.n]) = Len(st.arrays[b.n])
            /\ \A i \in 1..Len(st.arrays[a.n]) :
                  ObjEq(st.arrays[a.n][i], st.arrays[b.n][i], st)
       [] a.t = "HASH_MAP" -> inspect(a, st) = inspect(b, st)
       [] OTHER -> a.n = b.n /\ a.s = b.s

(***************************************************************************)
(* evaluator/helpers.rs                                                    *)
(***************************************************************************)
\* `if let AllObjects::X(v) = value`: the variant itself, not a boxed one
Is(v, t) == v.r = 0 /\ v.t = t

\* a variant that also takes the Integer 0 as falsy
is_truthy_ZeroFalsy(obj) ==
  IF Is(obj, "BOOLEAN") THEN obj.n = 1
  ELSE IF Is(obj, "NULL") \/ (Is(obj, "INTEGER") /\ obj.n = 0) THEN FALSE
  ELSE TRUE

is_truthy(obj) ==
  IF Is(obj, "BOOLEAN") THEN obj.n = 1
  ELSE IF Is(obj, "NULL") THEN FALSE
  ELSE TRUE

get_bool_consts(val) == IF val THEN TRUE_OBJ ELSE FALSE_OBJ

get_int_object_for_value(value) == Integer(value)

eval_bang_operator(right) ==
  IF right = TRUE_OBJ THEN FALSE_OBJ
  ELSE IF right = FALSE_OBJ THEN TRUE_OBJ
  ELSE IF right = NULL THEN TRUE_OBJ
  ELSE FALSE_OBJ

\* a variant that yields Null for an index past the end
get_array_index_value_NullPastEnd(array, left_index, has_right, right_index, st) ==
  LET binding == st.arrays[array.n] IN
  IF has_right
    THEN IF left_index > right_index \/ right_index > Len(binding)
           THEN R(indexing_error, st)
           ELSE R(ArrayObj(Len(st.arrays) + 1),
                  [st EXCEPT !.arrays =
                     Append(@, SubSeq(binding, left_index + 1, right_index))])
    ELSE IF left_index >= Len(binding)
           THEN R(NULL, st)
           ELSE R(binding[left_index + 1], st)

\* a variant that hands out the array itself for the range of all of it
get_array_index_value_SharesWhole(array, left_index, has_right, right_index, st) ==
  LET binding == st.arrays[array.n] IN
  IF has_right
    THEN IF left_index > right_index \/ right_index > Len(binding)
           THEN R(indexing_error, st)
           ELSE IF left_index = 0 /\ right_index = Len(binding)
             THEN R(array, st)
           ELSE R(ArrayObj(Len(st.arrays) + 1),
                  [st EXCEPT !.arrays =
                     Append(@, SubSeq(binding, left_index + 1, right_index))])
    ELSE IF left_index >= Len(binding)
           THEN R(indexing_error, st)
           ELSE R(binding[left_index + 1], st)

\* slice::get(left..right): None when left > right or right > len
get_array_index_value(array, left_index, has_right, right_index, st) ==
  LET binding == st.arrays[array.n] IN
  IF has_right
    THEN IF left_index > right_index \/ right_index > Len(binding)
           THEN R(indexing_error, st)
           ELSE R(ArrayObj(Len(st.arrays) + 1),
                  [st EXCEPT !.arrays =
                     Append(@, SubSeq(binding, left_index + 1, right_index))])
    ELSE IF left_index >= Len(binding)
           THEN R(indexing_error, st)
           ELSE R(binding[left_index + 1], st)

get_string_index_value(str, left_index, has_right, right_index, st) ==
  IF has_right
    THEN IF left_index > right_index \/ right_index > Len(str.s)
           THEN R(indexing_error, st)
           ELSE R(StringObj(SubSeq(str.s, left_index + 1, right_index)), st)
    ELSE IF left_index >= Len(str.s)
           THEN R(indexing_error, st)
           ELSE R(StringObj(CharAt(str.s, left_index + 1)), st)

\* the least position of a set of positions, or 0
FirstOf(S) == IF S = {} THEN 0 ELSE CHOOSE i \in S : \A j \in S : i <= j

\* position of the entry of a map whose key equals `key`, or 0
MapFind(entries, key, st) ==
  FirstOf({i \in 1..Len(entries) : ObjEq(entries[i].k, key, st)})

\* the value of the entry at position i; position 0 is Option::None
EntryAt(entries, i) == IF i = 0 THEN NONE ELSE entries[i].v

\* std HashMap::get
MapGet(entries, key, st) == EntryAt(entries, MapFind(entries, key, st))

\* `if let Some(v) = ... { return v } NULL`
OrNull(v) == IF v = NONE THEN NULL ELSE v

get_hash_map_value(m, key, st) == OrNull(MapGet(st.maps[m.n], key, st))

\* std HashMap::insert: an equal key keeps its slot and takes the new value;
\* the slot of a new key depends on the hasher of the map
InsertAt(entries, i, key, value, ref) ==
  IF i # 0 THEN [entries EXCEPT ![i].v = value]
  ELSE IF ref \in prependMaps THEN <<[k |-> key, v |-> value]>> \o entries
  ELSE Append(entries, [k |-> key, v |-> value])

MapInsert(entries, key, value, ref, st) ==
  InsertAt(entries, MapFind(entries, key, st), key, value, ref)

\* std HashMap::remove: the entries without the one at position i
RemoveAt(entries, i) ==
  IF i = 0 THEN entries
  ELSE SubSeq(entries, 1, i - 1) \o SubSeq(entries, i + 1, Len(entries))

MapRemove(entries, key, st) == RemoveAt(entries, MapFind(entries, key, st))

(***************************************************************************)
(* evaluator/builtins.rs                                                   *)
(***************************************************************************)
BuiltinNames ==
  {"len", "print", "push", "pop", "is_null", "insert", "delete", "sleep"}

get_builtin_function(name) ==
  IF name \in BuiltinNames THEN BuiltinFunctionObj(name) ELSE NONE

\* ParamsType: Fixed(names) or Variadic
BuiltinParameters(fn_name) ==
  CASE fn_name = "len" -> [variadic |-> FALSE, names |-> <<"value">>]
    [] fn_name = "print" -> [variadic |-> TRUE, names |-> << >>]
    [] fn_name = "push" -> [variadic |-> FALSE, names |-> <<"array", "element">>]
    [] fn_name = "pop" -> [variadic |-> FALSE, names |-> <<"array">>]
    [] fn_name = "is_null" -> [variadic |-> FALSE, names |-> <<"value">>]
    [] fn_name = "insert" ->
         [variadic |-> FALSE, names |-> <<"map", "key", "value">>]
    [] fn_name = "delete" -> [variadic |-> FALSE, names |-> <<"map", "key">>]
    [] fn_name = "sleep" -> [variadic |-> FALSE, names |-> <<"seconds">>]

get_argument(arg_name, env, st) ==
  LET v == Environment_get(env, arg_name, st) IN
  IF v # NONE THEN v ELSE argument_not_found("value", "STRING")

builtin_len(env, st) ==
  LET value == get_argument("value", env, st) IN
  IF Is(value, "STRING") THEN R(get_int_object_for_value(Len(value.s)), st)
  ELSE IF Is(value, "ARRAY")
    THEN R(get_int_object_for_value(Len(st.arrays[value.n])), st)
  ELSE IF Is(value, "ERROR") THEN R(value, st)
  ELSE R(unexpected_argument_type("a STRING", value), st)

RECURSIVE PrintLoop(_, _, _, _)
PrintLoop(all_vars, i, env, st) ==
  IF i > Len(all_vars) THEN R(NULL, st)
  ELSE LET arg == Environment_get(env, all_vars[i], st) IN
       IF arg = NONE THEN R(identifier_not_found(all_vars[i]), st)
       ELSE PrintLoop(all_vars, i + 1, env,
              [st EXCEPT !.out = @ \o inspect(arg, st)
                                   \o (IF i # Len(all_vars) THEN " " ELSE "")])

builtin_print(env, st) ==
  LET all_vars == Environment_all_vars(env, st)
      r == PrintLoop(all_vars, 1, env, st)
  IN IF is_error(r.v) THEN r
     ELSE IF Len(all_vars) = 0 THEN R(NULL, [r.st EXCEPT !.out = @ \o "\n"])
     ELSE r

\* a variant that puts the element in front
builtin_push_Prepends(env, st) ==
  LET array == get_argument("array", env, st)
      element == get_argument("element", env, st)
  IN IF ~Is(array, "ARRAY")
       THEN R(unexpected_argument_type("an ARRAY", array), st)
       ELSE R(NULL, [st EXCEPT !.arrays[array.n] = <<element>> \o @])

builtin_push(env, st) ==
  LET array == get_argument("array", env, st)
      element == get_argument("element", env, st)
  IN IF ~Is(array, "ARRAY")
       THEN R(unexpected_argument_type("an ARRAY", array), st)
       ELSE R(NULL, [st EXCEPT !.arrays[array.n] = Append(@, element)])

builtin_pop(env, st) ==
  LET array == get_argument("array", env, st) IN
  IF ~Is(array, "ARRAY")
    THEN R(unexpected_argument_type("an ARRAY", array), st)
  ELSE LET elements == st.arrays[array.n] IN
       IF Len(elements) = 0 THEN R(NULL, st)
       ELSE R(elements[Len(elements)],
              [st EXCEPT !.arrays[array.n] = SubSeq(@, 1, Len(@) - 1)])

builtin_is_null(env, st) ==
  R(get_bool_consts(Is(get_argument("value", env, st), "NULL")), st)

\* hashing a key that is a HashMap calls inspect, which borrows the map
\* that insert / delete holds mutably: a BorrowError panic
RECURSIVE MentionsMap(_, _, _)
MentionsMap(v, ref, st) ==
  \/ v.t = "HASH_MAP" /\ v.n = ref
  \/ v.t = "HASH_MAP" /\ \E i \in 1..Len(st.maps[v.n]) :
        MentionsMap(st.maps[v.n][i].k, ref, st)
        \/ MentionsMap(st.maps[v.n][i].v, ref, st)
  \/ v.t = "ARRAY" /\ \E i \in 1..Len(st.arrays[v.n]) :
        MentionsMap(st.arrays[v.n][i], ref, st)

builtin_insert(env, st) ==
  LET map_arg == get_argument("map", env, st)
      key == get_argument("key", env, st)
      value == get_argument("value", env, st)
  IN IF ~Is(map_arg, "HASH_MAP")
       THEN R(unexpected_argument_type("a hash map", map_arg), st)
     ELSE IF MentionsMap(key, map_arg.n, st)
       THEN R(NULL, [st EXCEPT !.panic = TRUE])
     ELSE R(OrNull(MapGet(st.maps[map_arg.n], key, st)),
            [st EXCEPT !.maps[map_arg.n] =
               MapInsert(@, key, value, map_arg.n, st)])

builtin_delete(env, st) ==
  LET map_arg == get_argument("map", env, st)
      key == get_argument("key", env, st)
  IN IF ~Is(map_arg, "HASH_MAP")
       THEN R(unexpected_argument_type("a hash map", map_arg), st)
     ELSE IF MentionsMap(key, map_arg.n, st)
       THEN R(NULL, [st EXCEPT !.panic = TRUE])
     ELSE R(OrNull(MapGet(st.maps[map_arg.n], key, st)),
            [st EXCEPT !.maps[map_arg.n] = MapRemove(@, key, st)])

\* thread::sleep blocks and changes nothing
builtin_sleep(env, st) ==
  LET seconds == get_argument("seconds", env, st) IN
  IF ~Is(seconds, "INTEGER")
    THEN R(unexpected_argument_type("an integer", seconds), st)
  ELSE IF seconds.n < 0 THEN R(sleep_arg_error, st)
  ELSE R(NULL, st)

\* (f.func)(new_env)
BuiltinFunc(fn_name, env, st) ==
  CASE fn_name = "len" -> builtin_len(env, st)
    [] fn_name = "print" -> builtin_print(env, st)
    [] fn_name = "push" -> builtin_push(env, st)
    [] fn_name = "pop" -> builtin_pop(env, st)
    [] fn_name = "is_null" -> builtin_is_null(env, st)
    [] fn_name = "insert" -> builtin_insert(env, st)
    [] fn_name = "delete" -> builtin_delete(env, st)
    [] fn_name = "sleep" -> builtin_sleep(env, st)

(***************************************************************************)
(* The AST (ast/expressions.rs, ast/statements.rs).  A node is a record    *)
(* whose field k names the variant.  Statements carry an id under which    *)
(* their evaluation is traced: the position of their first token in the    *)
(* programs written out below, 0 in what the parser makes.                 *)
(***************************************************************************)
\* Option::None where the AST holds an Option<Box<AllExpressions>>
Absent == [k |-> "Absent"]

IntLit(v) == [k |-> "IntegerLiteral", value |-> v]
StrLit(s) == [k |-> "StringLiteral", value |-> s]
BoolLit(b) == [k |-> "Boolean", value |-> b]
NullLit == [k |-> "NullLiteral"]
Ident(x) == [k |-> "Identifier", value |-> x]
Assign(x, e) == [k |-> "Assignment", ident |-> x, value |-> e]
Prefix(op, e) == [k |-> "PrefixExpression", operator |-> op, right |-> e]
Infix(l, op, r) ==
  [k |-> "InfixExpression", left |-> l, operator |-> op, right |-> r]
If(c, cons) ==
  [k |-> "IfExpression", condition |-> c, consequence |-> cons,
   has_alternative |-> FALSE, alternative |-> << >>]
IfElse(c, cons, alt) ==
  [k |-> "IfExpression", condition |-> c, consequence |-> cons,
   has_alternative |-> TRUE, alternative |-> alt]
Fn(params, body) ==
  [k |-> "FunctionLiteral", parameters |-> params, body |-> body]
Call(f, args) == [k |-> "CallExpression", function |-> f, arguments |-> args]
Arr(elems) == [k |-> "ArrayLiteral", elements |-> elems]
Index(l, i) == [k |-> "IndexExpression", left |-> l, index |-> i]
Range(l, lo, hi) ==
  [k |-> "RangeExpression", left |-> l, left_index |-> lo, right_index |-> hi]
Hash(pairs) == [k |-> "HashLiteral", pairs |-> pairs]
Pair(key, value) == [key |-> key, value |-> value]

Let(id, x, e) == [k |-> "Let", id |-> id, name |-> x, value |-> e]
Return(id, e) == [k |-> "Return", id |-> id, return_value |-> e]
Expr(id, e) == [k |-> "Expression", id |-> id, expression |-> e]
While(id, c, body) ==
  [k |-> "While", id |-> id, condition |-> c, body |-> body]
Block(id, stmts) == [k |-> "Block", id |-> id, statements |-> stmts]

(***************************************************************************)
(* evaluator/eval.rs                                                       *)
(***************************************************************************)
\* i64 division truncates toward zero
TruncDiv(a, b) ==
  LET abs(x) == IF x < 0 THEN -x ELSE x
      q == abs(a) \div abs(b)
  IN IF (a < 0) = (b < 0) THEN q ELSE -q

eval_minus_operator(right) ==
  IF Is(right, "INTEGER") THEN Integer(-right.n)
  ELSE unknown_prefix_operator("-", right)

\* `/` by zero panics
eval_integer_calculations(left, operator, right, st) ==
  LET l == left.n
      r == right.n
  IN CASE operator = "+" -> R(get_int_object_for_value(l + r), st)
       [] operator = "-" -> R(get_int_object_for_value(l - r), st)
       [] operator = "*" -> R(get_int_object_for_value(l * r), st)
       [] operator = "/" ->
            IF r = 0 THEN R(NULL, [st EXCEPT !.panic = TRUE])
            ELSE R(get_int_object_for_value(TruncDiv(l, r)), st)
       [] operator = "<" -> R(get_bool_consts(l < r), st)
       [] operator = ">" -> R(get_bool_consts(l > r), st)
       [] operator = "!=" -> R(get_bool_consts(l # r), st)
       [] operator = "==" -> R(get_bool_consts(l = r), st)
       [] OTHER -> R(NULL, st)

\* a variant that orders the Booleans, false before true
eval_comparison_for_booleans_Ordered(left, operator, right) ==
  CASE operator = "==" -> get_bool_consts(left.n = right.n)
    [] operator = "!=" -> get_bool_consts(left.n # right.n)
    [] operator = "<" -> get_bool_consts(left.n < right.n)
    [] operator = ">" -> get_bool_consts(left.n > right.n)
    [] OTHER -> unknown_operator(left, operator, right)

eval_comparison_for_booleans(left, operator, right) ==
  CASE operator = "==" -> get_bool_consts(left.n = right.n)
    [] operator = "!=" -> get_bool_consts(left.n # right.n)
    [] OTHER -> unknown_operator(left, operator, right)

eval_string_comparisons(left, operator, right) ==
  CASE operator = ">" -> Boolean(StrLess(right, left))
    [] operator = "<" -> Boolean(StrLess(left, right))
    [] operator = "==" -> Boolean(left = right)
    [] operator = "!=" -> Boolean(left # right)

eval_string_operations(left, operator, right) ==
  CASE operator = "+" -> StringObj(left.s \o right.s)
    [] operator \in {">", "==", "<", "!="} ->
         eval_string_comparisons(left.s, operator, right.s)
    [] OTHER -> unknown_operator(left, operator, right)
\* new_function_literal with the environment cloned by value instead of
\* the Rc handle cloned
new_function_literal_Snapshot(node, env, st) ==
  R(FunctionObj(Len(st.funcs) + 1),
    [st EXCEPT !.envs = Append(@, st.envs[env]),
               !.funcs = Append(@, [parameters |-> node.parameters,
                                    body |-> node.body,
                                    env |-> Len(st.envs) + 1])])

new_function_literal(node, env, st) ==
  R(FunctionObj(Len(st.funcs) + 1),
    [st EXCEPT !.funcs = Append(@, [parameters |-> node.parameters,
                                    body |-> node.body, env |-> env])])

\* a variant that consults the builtin table before the scopes
eval_identifier_BuiltinFirst(node, env, st) ==
  LET builtin_function == get_builtin_function(node.value) IN
  IF builtin_function # NONE THEN R(builtin_function, st)
  ELSE LET ident == Environment_get(env, node.value, st) IN
       IF ident = NONE THEN R(identifier_not_found(node.value), st)
       ELSE R(ident, st)

eval_identifier(node, env, st) ==
  LET ident == Environment_get(env, node.value, st) IN
  IF ident = NONE
    THEN LET builtin_function == get_builtin_function(node.value) IN
         IF builtin_function # NONE THEN R(builtin_function, st)
         ELSE R(identifier_not_found(node.value), st)
    ELSE R(ident, st)

\* binding the arguments of a call: `for ... { func_env.set(param, arg) }`
RECURSIVE BindParameters(_, _, _, _, _)
BindParameters(names, args, i, env, st) ==
  IF i > Len(names) THEN st
  ELSE BindParameters(names, args, i + 1, env,
                      Environment_set(env, names[i], args[i], st).st)

ArgName(i) == "arg_" \o ToString(i)

eval_builtin_function_calls(f, args, st) ==
  LET st1 == new_enclosed_environment(0, st)
      new_env == NewEnvId(st)
      params == BuiltinParameters(f.s)
  IN IF ~params.variadic /\ Len(params.names) # Len(args)
       THEN R(incorrect_arg_num(Len(params.names), Len(args)), st1)
     ELSE BuiltinFunc(f.s, new_env,
            BindParameters(IF params.variadic
                             THEN [i \in 1..Len(args) |-> ArgName(i - 1)]
                             ELSE params.names,
                           args, 1, new_env, st1))

RECURSIVE eval(_, _, _)
RECURSIVE eval_block_statement_from(_, _, _, _, _)
RECURSIVE eval_while_loop(_, _, _, _, _, _)
RECURSIVE eval_expressions_from(_, _, _, _, _)
RECURSIVE eval_array_literal_from(_, _, _, _, _)
RECURSIVE eval_hash_map_from(_, _, _, _, _)

eval_let_statement(stmt, env, st) ==
  LET value == eval(stmt.value, env, st) IN
  IF value.v = NONE THEN value
  ELSE IF is_error(value.v) THEN value
  ELSE Environment_set(env, stmt.name, value.v, value.st)

eval_block_statement_from(statements, i, env, st, result_) ==
  IF i > Len(statements) THEN R(result_, st)
  ELSE LET r == eval(statements[i], env, st) IN
       IF r.v # NONE /\ (IsReturnValue(r.v) \/ is_error(r.v)) THEN r
       ELSE eval_block_statement_from(statements, i + 1, env, r.st, r.v)

eval_block_statement(block, env, st) ==
  eval_block_statement_from(block, 1, env, st, NONE)

eval_return_statement(stmt, env, st) ==
  LET evaluated == eval(stmt.return_value, env, st) IN
  IF evaluated.v = NONE THEN evaluated
  ELSE IF is_error(evaluated.v) THEN evaluated
  ELSE R(ReturnValue(evaluated.v), evaluated.st)

\* the `while is_truthy(&condition)` loop; fuel counts the iterations left
\* before the run is recorded as diverged
eval_while_loop(stmt, env, new_env, condition, st, fuel) ==
  IF ~is_truthy(condition) THEN R(NULL, st)
  ELSE IF fuel = 0 THEN R(NULL, [st EXCEPT !.diverged = TRUE])
  ELSE LET body == eval_block_statement(stmt.body, new_env, st) IN
       IF body.v = NONE THEN body
       ELSE IF IsReturnValue(body.v) \/ is_error(body.v) THEN body
       ELSE LET c == eval(stmt.condition, env, body.st) IN
            IF c.v = NONE THEN c
            ELSE IF is_error(c.v) THEN c
            ELSE eval_while_loop(stmt, env, new_env, c.v, c.st, fuel - 1)

eval_while_statement(stmt, env, st) ==
  LET condition == eval(stmt.condition, env, st) IN
  IF condition.v = NONE THEN condition
  ELSE IF is_error(condition.v) THEN condition
  ELSE eval_while_loop(stmt, env, NewEnvId(condition.st), condition.v,
                       new_enclosed_environment(env, condition.st), MaxIter)

eval_assignment_expression(node, env, st) ==
  LET evaluated == eval(node.value, env, st) IN
  IF evaluated.v = NONE THEN evaluated
  ELSE LET replaced ==
             Environment_replace(env, node.ident, evaluated.v, evaluated.st)
       IN IF replaced.v # NONE THEN replaced
          ELSE R(identifier_not_found(node.ident), replaced.st)

eval_prefix_expression(node, env, st) ==
  IF node.right.k = "Absent" THEN R(NONE, st)
  ELSE LET right_evaluated == eval(node.right, env, st) IN
       IF right_evaluated.v = NONE THEN right_evaluated
       ELSE IF is_error(right_evaluated.v) THEN right_evaluated
       ELSE R(CASE node.operator = "!" -> eval_bang_operator(right_evaluated.v)
                [] node.operator = "-" -> eval_minus_operator(right_evaluated.v)
                [] OTHER -> NULL,
              right_evaluated.st)

eval_infix_expression(node, env, st) ==
  IF node.left.k = "Absent" THEN R(NONE, st)
  ELSE LET left == eval(node.left, env, st) IN
  IF left.v = NONE THEN left
  ELSE IF is_error(left.v) THEN left
  ELSE IF node.right.k = "Absent" THEN R(NONE, left.st)
  ELSE LET right == eval(node.right, env, left.st) IN
  IF right.v = NONE THEN right
  ELSE IF is_error(right.v) THEN right
  ELSE IF object_type(left.v) # object_type(right.v)
    THEN R(type_mismatch(left.v, node.operator, right.v), right.st)
  ELSE IF is_integer(left.v) /\ is_integer(right.v)
    THEN eval_integer_calculations(left.v, node.operator, right.v, right.st)
  ELSE IF is_boolean(left.v) /\ is_boolean(right.v)
    THEN R(eval_comparison_for_booleans(left.v, node.operator, right.v),
           right.st)
  ELSE IF is_string(left.v) /\ is_string(right.v)
    THEN R(eval_string_operations(left.v, node.operator, right.v), right.st)
  ELSE R(unknown_operator(left.v, node.operator, right.v), right.st)

eval_if_expression(expr, env, st) ==
  LET condition == eval(expr.condition, env, st) IN
  IF condition.v = NONE THEN condition
  ELSE IF is_error(condition.v) THEN condition
  ELSE LET new_env == NewEnvId(condition.st)
           st1 == new_enclosed_environment(env, condition.st)
       IN IF is_truthy(condition.v)
            THEN eval_block_statement(expr.consequence, new_env, st1)
          ELSE IF ~expr.has_alternative THEN R(NULL, st1)
          ELSE eval_block_statement(expr.alternative, new_env, st1)

\* eval_expressions returns Option<Vec<AllObjects>>: ok = FALSE is None
eval_expressions_from(exprs, i, env, st, v) ==
  IF i > Len(exprs) THEN [ok |-> TRUE, vals |-> v, st |-> st]
  ELSE LET evaluated == eval(exprs[i], env, st) IN
       IF evaluated.v = NONE
         THEN [ok |-> FALSE, vals |-> << >>, st |-> evaluated.st]
       ELSE IF is_error(evaluated.v)
         THEN [ok |-> TRUE, vals |-> <<evaluated.v>>, st |-> evaluated.st]
       ELSE eval_expressions_from(exprs, i + 1, env, evaluated.st,
                                  Append(v, evaluated.v))

eval_expressions(exprs, env, st) ==
  eval_expressions_from(exprs, 1, env, st, << >>)

\* a variant that binds the parameters in the captured scope itself
eval_user_defined_function_call_BindsInCaptured(f, args, st) ==
  LET fobj == st.funcs[f.n]
      func_env == NewEnvId(st)
      st1 == new_enclosed_environment(fobj.env, st)
  IN IF Len(fobj.parameters) # Len(args)
       THEN R(incorrect_arg_num(Len(fobj.parameters), Len(args)), st1)
     ELSE LET evaluated ==
                eval_block_statement(fobj.body, func_env,
                  BindParameters(fobj.parameters, args, 1, fobj.env, st1))
          IN IF evaluated.v # NONE /\ IsReturnValue(evaluated.v)
               THEN R(Unbox(evaluated.v), evaluated.st)
               ELSE evaluated

eval_user_defined_function_call(f, args, st) ==
  LET fobj == st.funcs[f.n]
      func_env == NewEnvId(st)
      st1 == new_enclosed_environment(fobj.env, st)
  IN IF Len(fobj.parameters) # Len(args)
       THEN R(incorrect_arg_num(Len(fobj.parameters), Len(args)), st1)
     ELSE LET evaluated ==
                eval_block_statement(fobj.body, func_env,
                  BindParameters(fobj.parameters, args, 1, func_env, st1))
          IN IF evaluated.v # NONE /\ IsReturnValue(evaluated.v)
               THEN R(Unbox(evaluated.v), evaluated.st)
               ELSE evaluated

\* a variant that hands an Error among the arguments to the function
eval_call_expression_ErrorAsArgument(node, env, st) ==
  LET function == eval(node.function, env, st) IN
  IF function.v = NONE THEN function
  ELSE IF is_error(function.v) THEN function
  ELSE LET args == eval_expressions(node.arguments, env, function.st) IN
  IF ~args.ok THEN R(NONE, args.st)
  ELSE IF Is(function.v, "FUNCTION")
    THEN eval_user_defined_function_call(function.v, args.vals, args.st)
  ELSE IF Is(function.v, "BUILTIN")
    THEN eval_builtin_function_calls(function.v, args.vals, args.st)
  ELSE R(NONE, args.st)

\* a variant that yields an Error for a callee that is no function
eval_call_expression_NotAFunction(node, env, st) ==
  LET function == eval(node.function, env, st) IN
  IF function.v = NONE THEN function
  ELSE IF is_error(function.v) THEN function
  ELSE LET args == eval_expressions(node.arguments, env, function.st) IN
  IF ~args.ok THEN R(NONE, args.st)
  ELSE IF Len(args.vals) = 1 /\ is_error(args.vals[1])
    THEN R(args.vals[1], args.st)
  ELSE IF Is(function.v, "FUNCTION")
    THEN eval_user_defined_function_call(function.v, args.vals, args.st)
  ELSE IF Is(function.v, "BUILTIN")
    THEN eval_builtin_function_calls(function.v, args.vals, args.st)
  ELSE R(new_error("not a function: " \o object_type(function.v)), args.st)

eval_call_expression(node, env, st) ==
  LET function == eval(node.function, env, st) IN
  IF function.v = NONE THEN function
  ELSE IF is_error(function.v) THEN function
  ELSE LET args == eval_expressions(node.arguments, env, function.st) IN
  IF ~args.ok THEN R(NONE, args.st)
  ELSE IF Len(args.vals) = 1 /\ is_error(args.vals[1])
    THEN R(args.vals[1], args.st)
  ELSE IF Is(function.v, "FUNCTION")
    THEN eval_user_defined_function_call(function.v, args.vals, args.st)
  ELSE IF Is(function.v, "BUILTIN")
    THEN eval_builtin_function_calls(function.v, args.vals, args.st)
  ELSE R(NONE, args.st)

eval_array_literal_from(elements, i, env, st, v) ==
  IF i > Len(elements)
    THEN R(ArrayObj(Len(st.arrays) + 1), [st EXCEPT !.arrays = Append(@, v)])
  ELSE LET evaluated == eval(elements[i], env, st) IN
       IF evaluated.v = NONE THEN evaluated
       ELSE eval_array_literal_from(elements, i + 1, env, evaluated.st,
                                    Append(v, evaluated.v))

eval_array_literal(node, env, st) ==
  eval_array_literal_from(node.elements, 1, env, st, << >>)

eval_index_expression(node, env, st) ==
  LET evaluated_left == eval(node.left, env, st) IN
  IF evaluated_left.v = NONE THEN evaluated_left
  ELSE LET evaluated_index == eval(node.index, env, evaluated_left.st) IN
  IF evaluated_index.v = NONE THEN evaluated_index
  ELSE LET st2 == evaluated_index.st
           left == evaluated_left.v
           index == evaluated_index.v
  IN IF Is(left, "HASH_MAP") THEN R(get_hash_map_value(left, index, st2), st2)
     ELSE IF ~Is(index, "INTEGER")
       THEN R(unexpected_argument_type("an INTEGER", index), st2)
     ELSE IF index.n < 0 THEN R(incorrect_index_argument, st2)
     ELSE IF Is(left, "ARRAY")
       THEN get_array_index_value(left, index.n, FALSE, 0, st2)
     ELSE IF Is(left, "STRING")
       THEN get_string_index_value(left, index.n, FALSE, 0, st2)
     ELSE R(unexpected_argument_type("an ARRAY or a STRING", left), st2)

eval_range_expression(node, env, st) ==
  LET left == eval(node.left_index, env, st) IN
  IF left.v = NONE THEN left
  ELSE IF ~Is(left.v, "INTEGER")
    THEN R(unexpected_argument_type("an INTEGER", left.v), left.st)
  ELSE LET right == eval(node.right_index, env, left.st) IN
  IF right.v = NONE THEN right
  ELSE IF ~Is(right.v, "INTEGER")
    THEN R(unexpected_argument_type("an INTEGER", right.v), right.st)
  ELSE IF left.v.n < 0 THEN R(incorrect_index_argument, right.st)
  ELSE IF right.v.n < 0 THEN R(incorrect_index_argument, right.st)
  ELSE LET val == eval(node.left, env, right.st) IN
  IF val.v = NONE THEN val
  ELSE IF Is(val.v, "ARRAY")
    THEN get_array_index_value(val.v, left.v.n, TRUE, right.v.n, val.st)
  ELSE IF Is(val.v, "STRING")
    THEN get_string_index_value(val.v, left.v.n, TRUE, right.v.n, val.st)
  ELSE R(unexpected_argument_type("an ARRAY or a STRING", val.v), val.st)

\* the `map.insert(key, value)` calls of eval_hash_map, in the order they
\* were made, applied to the HashMap that gets the handle `ref`
RECURSIVE MapFromInserts(_, _, _, _, _)
MapFromInserts(inserts, i, ref, st, map) ==
  IF i > Len(inserts) THEN map
  ELSE MapFromInserts(inserts, i + 1, ref, st,
                      MapInsert(map, inserts[i].k, inserts[i].v, ref, st))

eval_hash_map_from(pairs, i, env, st, inserts) ==
  IF i > Len(pairs)
    THEN LET ref == Len(st.maps) + 1 IN
         R(HashMapObj(ref),
           [st EXCEPT !.maps =
              Append(@, MapFromInserts(inserts, 1, ref, st, << >>))])
  ELSE LET key == eval(pairs[i].key, env, st) IN
       IF key.v = NONE THEN key
       ELSE LET value == eval(pairs[i].value, env, key.st) IN
            IF value.v = NONE THEN value
            ELSE eval_hash_map_from(pairs, i + 1, env, value.st,
                   Append(inserts, [k |-> key.v, v |-> value.v]))

eval_hash_map(node, env, st) ==
  eval_hash_map_from(PairOrder(node.pairs), 1, env, st, << >>)

eval_expression(exprs, env, st) ==
  CASE exprs.k = "IntegerLiteral" -> R(Integer(exprs.value), st)
    [] exprs.k = "StringLiteral" -> R(StringObj(exprs.value), st)
    [] exprs.k = "Boolean" -> R(get_bool_consts(exprs.value), st)
    [] exprs.k = "Assignment" -> eval_assignment_expression(exprs, env, st)
    [] exprs.k = "PrefixExpression" -> eval_prefix_expression(exprs, env, st)
    [] exprs.k = "InfixExpression" -> eval_infix_expression(exprs, env, st)
    [] exprs.k = "IfExpression" -> eval_if_expression(exprs, env, st)
    [] exprs.k = "Identifier" -> eval_identifier(exprs, env, st)
    [] exprs.k = "FunctionLiteral" -> new_function_literal(exprs, env, st)
    [] exprs.k = "CallExpression" -> eval_call_expression(exprs, env, st)
    [] exprs.k = "ArrayLiteral" -> eval_array_literal(exprs, env, st)
    [] exprs.k = "NullLiteral" -> R(NULL, st)
    [] exprs.k = "IndexExpression" -> eval_index_expression(exprs, env, st)
    [] exprs.k = "RangeExpression" -> eval_range_expression(exprs, env, st)
    [] exprs.k = "HashLiteral" -> eval_hash_map(exprs, env, st)

eval_statement(stmt, env, st0) ==
  LET st == [st0 EXCEPT !.trace = Append(@, stmt.id)] IN
  CASE stmt.k = "Let" -> eval_let_statement(stmt, env, st)
    [] stmt.k = "Return" -> eval_return_statement(stmt, env, st)
    [] stmt.k = "Expression" ->
         IF stmt.expression.k = "Absent" THEN R(NONE, st)
         ELSE eval(stmt.expression, env, st)
    [] stmt.k = "Block" -> eval_block_statement(stmt.statements, env, st)
    [] stmt.k = "While" -> eval_while_statement(stmt, env, st)

\* eval(node, env): the dispatch on AllNodes
eval(node, env, st) ==
  IF node.k \in {"Let", "Return", "Expression", "Block", "While"}
    THEN eval_statement(node, env, st)
    ELSE eval_expression(node, env, st)

(***************************************************************************)
(* The programs the evaluator is run on.  The number of a statement is its *)
(* id in the trace.                                                        *)
(***************************************************************************)
\* let i = 1; let x = 0; while (i < 4) { x = x + 10; i = i + 1 } x
ProgWhile ==
  << Let(1, "i", IntLit(1)),
     Let(2, "x", IntLit(0)),
     While(3, Infix(Ident("i"), "<", IntLit(4)),
           << Expr(4, Assign("x", Infix(Ident("x"), "+", IntLit(10)))),
              Expr(5, Assign("i", Infix(Ident("i"), "+", IntLit(1)))) >>),
     Expr(6, Ident("x")) >>

\* let newAdder = fn(x) { return fn(y) { x + y } };
\* let addTwo = newAdder(2); addTwo(3);
ProgClosure ==
  << Let(1, "newAdder",
         Fn(<<"x">>,
            << Return(2, Fn(<<"y">>,
                 << Expr(3, Infix(Ident("x"), "+", Ident("y"))) >>)) >>)),
     Let(4, "addTwo", Call(Ident("newAdder"), <<IntLit(2)>>)),
     Expr(5, Call(Ident("addTwo"), <<IntLit(3)>>)) >>

\* let a = 1; let f = fn() { a }; a = 2; let b = f(); let a = 3; f()
ProgCapture ==
  << Let(1, "a", IntLit(1)),
     Let(2, "f", Fn(<< >>, << Expr(3, Ident("a")) >>)),
     Expr(4, Assign("a", IntLit(2))),
     Let(5, "b", Call(Ident("f"), << >>)),
     Let(6, "a", IntLit(3)),
     Expr(7, Call(Ident("f"), << >>)) >>

\* let f = fn(n) { if (n == 0) { 0 } else { f(n - 1) } }; f(2)
ProgRecursion ==
  << Let(1, "f",
         Fn(<<"n">>,
            << Expr(2, IfElse(Infix(Ident("n"), "==", IntLit(0)),
                 << Expr(3, IntLit(0)) >>,
                 << Expr(4, Call(Ident("f"),
                      <<Infix(Ident("n"), "-", IntLit(1))>>)) >>)) >>)),
     Expr(5, Call(Ident("f"), <<IntLit(2)>>)) >>

\* let a = [1, 2]; let b = a; push(b, 3);
\* let g = fn(z) { push(z, 4); pop(a) }; g(b); pop(b); len(a)
ProgArrayAlias ==
  << Let(1, "a", Arr(<<IntLit(1), IntLit(2)>>)),
     Let(2, "b", Ident("a")),
     Expr(3, Call(Ident("push"), <<Ident("b"), IntLit(3)>>)),
     Let(4, "g", Fn(<<"z">>,
           << Expr(5, Call(Ident("push"), <<Ident("z"), IntLit(4)>>)),
              Expr(6, Call(Ident("pop"), <<Ident("a")>>)) >>)),
     Expr(7, Call(Ident("g"), <<Ident("b")>>)),
     Expr(8, Call(Ident("pop"), <<Ident("b")>>)),
     Expr(9, Call(Ident("len"), <<Ident("a")>>)) >>

\* let m = {"a": 1, "b": 2}; let n = m; insert(n, "c", 3); delete(m, "a");
\* let h = fn(z) { insert(z, "d", m) }; h(n); m["c"]
ProgMapAlias ==
  << Let(1, "m", Hash(<<Pair(StrLit("a"), IntLit(1)),
                        Pair(StrLit("b"), IntLit(2))>>)),
     Let(2, "n", Ident("m")),
     Expr(3, Call(Ident("insert"), <<Ident("n"), StrLit("c"), IntLit(3)>>)),
     Expr(4, Call(Ident("delete"), <<Ident("m"), StrLit("a")>>)),
     Let(5, "h", Fn(<<"z">>,
           << Expr(6, Call(Ident("insert"),
                           <<Ident("z"), StrLit("d"), IntLit(4)>>)) >>)),
     Expr(7, Call(Ident("h"), <<Ident("n")>>)),
     Expr(8, Index(Ident("m"), StrLit("c"))) >>

\* let a = [foo]; let m = {1: bar}; push(a, 2); a[0]; 5
ProgErrorInContainer ==
  << Let(1, "a", Arr(<<Ident("foo")>>)),
     Let(2, "m", Hash(<<Pair(IntLit(1), Ident("bar"))>>)),
     Expr(3, Call(Ident("push"), <<Ident("a"), IntLit(2)>>)),
     Expr(4, Index(Ident("a"), IntLit(0))),
     Expr(5, IntLit(5)) >>

\* let f = fn() { [if (true) { return 1 }] }; let a = f();
\* let g = fn() { let y = if (true) { return 2 }; 3 }; let b = g();
\* 1 + if (true) { return 2 }; 4
ProgReturnLeak ==
  << Let(1, "f", Fn(<< >>,
        << Expr(2, Arr(<<If(BoolLit(TRUE), << Return(3, IntLit(1)) >>)>>)) >>)),
     Let(4, "a", Call(Ident("f"), << >>)),
     Let(5, "g", Fn(<< >>,
        << Let(6, "y", If(BoolLit(TRUE), << Return(7, IntLit(2)) >>)),
           Expr(8, IntLit(3)) >>)),
     Let(9, "b", Call(Ident("g"), << >>)),
     Expr(10, Infix(IntLit(1), "+",
                    If(BoolLit(TRUE), << Return(11, IntLit(2)) >>))),
     Expr(12, IntLit(4)) >>

\* let x = if (true) { return 1 }; x
ProgLetReturn ==
  << Let(1, "x", If(BoolLit(TRUE), << Return(2, IntLit(1)) >>)),
     Expr(3, Ident("x")) >>

\* return if (true) { return 1 }; 2
ProgReturnReturn ==
  << Return(1, If(BoolLit(TRUE), << Return(2, IntLit(1)) >>)),
     Expr(3, IntLit(2)) >>

\* let a = []; push(a, 1); foo; push(a, 2); a
ProgStopAtError ==
  << Let(1, "a", Arr(<< >>)),
     Expr(2, Call(Ident("push"), <<Ident("a"), IntLit(1)>>)),
     Expr(3, Ident("foo")),
     Expr(4, Call(Ident("push"), <<Ident("a"), IntLit(2)>>)),
     Expr(5, Ident("a")) >>

\* let a = []; 9; return 2 * 5; push(a, 2); 9
ProgStopAtReturn ==
  << Let(1, "a", Arr(<< >>)),
     Expr(2, IntLit(9)),
     Return(3, Infix(IntLit(2), "*", IntLit(5))),
     Expr(4, Call(Ident("push"), <<Ident("a"), IntLit(2)>>)),
     Expr(5, IntLit(9)) >>

\* let log = [];
\* let f = fn(c) { if (c) { if (true) { return 1 }; push(log, 1) };
\*                 push(log, 2); return 2; push(log, 3) };
\* let x = f(true); let y = f(false); push(log, 9); x + y
ProgNestedReturn ==
  << Let(1, "log", Arr(<< >>)),
     Let(2, "f", Fn(<<"c">>,
        << Expr(3, If(Ident("c"),
             << Expr(4, If(BoolLit(TRUE), << Return(5, IntLit(1)) >>)),
                Expr(6, Call(Ident("push"), <<Ident("log"), IntLit(1)>>)) >>)),
           Expr(7, Call(Ident("push"), <<Ident("log"), IntLit(2)>>)),
           Return(8, IntLit(2)),
           Expr(9, Call(Ident("push"), <<Ident("log"), IntLit(3)>>)) >>)),
     Let(10, "x", Call(Ident("f"), <<BoolLit(TRUE)>>)),
     Let(11, "y", Call(Ident("f"), <<BoolLit(FALSE)>>)),
     Expr(12, Call(Ident("push"), <<Ident("log"), IntLit(9)>>)),
     Expr(13, Infix(Ident("x"), "+", Ident("y"))) >>

\* let f = fn() { let i = 0;
\*                while (true) { i = i + 1; if (i == 2) { return i } };
\*                99 };
\* let r = f(); r
ProgWhileReturn ==
  << Let(1, "f", Fn(<< >>,
        << Let(2, "i", IntLit(0)),
           While(3, BoolLit(TRUE),
             << Expr(4, Assign("i", Infix(Ident("i"), "+", IntLit(1)))),
                Expr(5, If(Infix(Ident("i"), "==", IntLit(2)),
                           << Return(6, Ident("i")) >>)) >>),
           Expr(7, IntLit(99)) >>)),
     Let(8, "r", Call(Ident("f"), << >>)),
     Expr(9, Ident("r")) >>

\* let log = [];
\* let f = fn() { [if (true) { return 1 }]; push(log, 1); 7 }; f()
ProgReturnInOperand ==
  << Let(1, "log", Arr(<< >>)),
     Let(2, "f", Fn(<< >>,
        << Expr(3, Arr(<<If(BoolLit(TRUE), << Return(4, IntLit(1)) >>)>>)),
           Expr(5, Call(Ident("push"), <<Ident("log"), IntLit(1)>>)),
           Expr(6, IntLit(7)) >>)),
     Expr(7, Call(Ident("f"), << >>)) >>

\* let x = 12; if (true) { let x = 13; x = x + 1; }; x;
\* if (true) { x = 5 }; x; y = 10
ProgScopes ==
  << Let(1, "x", IntLit(12)),
     Expr(2, If(BoolLit(TRUE),
        << Let(3, "x", IntLit(13)),
           Expr(4, Assign("x", Infix(Ident("x"), "+", IntLit(1)))) >>)),
     Expr(5, Ident("x")),
     Expr(6, If(BoolLit(TRUE), << Expr(7, Assign("x", IntLit(5))) >>)),
     Expr(8, Ident("x")),
     Expr(9, Assign("y", IntLit(10))) >>

\* if (1 < 2) { let x = 10; } x - 10;
ProgIfScope ==
  << Expr(1, If(Infix(IntLit(1), "<", IntLit(2)),
                << Let(2, "x", IntLit(10)) >>)),
     Expr(3, Infix(Ident("x"), "-", IntLit(10))) >>

\* let v = 1; let g = fn() { v }; let h = fn(w) { let v = 2; g() };
\* h(3); let i = 0; while (i < 1) { let v = 5; i = i + 1 }; v; w
ProgLexical ==
  << Let(1, "v", IntLit(1)),
     Let(2, "g", Fn(<< >>, << Expr(3, Ident("v")) >>)),
     Let(4, "h", Fn(<<"w">>,
        << Let(5, "v", IntLit(2)),
           Expr(6, Call(Ident("g"), << >>)) >>)),
     Expr(7, Call(Ident("h"), <<IntLit(3)>>)),
     Let(8, "i", IntLit(0)),
     While(9, Infix(Ident("i"), "<", IntLit(1)),
        << Let(10, "v", IntLit(5)),
           Expr(11, Assign("i", Infix(Ident("i"), "+", IntLit(1)))) >>),
     Expr(12, Ident("v")),
     Expr(13, Ident("w")) >>

\* 5(1); let x = "s"(); x
ProgCallNonFunction ==
  << Expr(1, Call(IntLit(5), <<IntLit(1)>>)),
     Let(2, "x", Call(StrLit("s"), << >>)),
     Expr(3, Ident("x")) >>

\* print(1, "a", true); print(); print([1, 2], {1: 2})
ProgPrint ==
  << Expr(1, Call(Ident("print"), <<IntLit(1), StrLit("a"), BoolLit(TRUE)>>)),
     Expr(2, Call(Ident("print"), << >>)),
     Expr(3, Call(Ident("print"),
                  <<Arr(<<IntLit(1), IntLit(2)>>),
                    Hash(<<Pair(IntLit(1), IntLit(2))>>)>>)) >>

\* let a = [1, 2, 3]; let s = a[1:3]; push(s, 4); a[2]; "foobar"[0:3];
\* "bar"[2]; a[3]
ProgIndex ==
  << Let(1, "a", Arr(<<IntLit(1), IntLit(2), IntLit(3)>>)),
     Let(2, "s", Range(Ident("a"), IntLit(1), IntLit(3))),
     Expr(3, Call(Ident("push"), <<Ident("s"), IntLit(4)>>)),
     Expr(4, Index(Ident("a"), IntLit(2))),
     Expr(5, Range(StrLit("foobar"), IntLit(0), IntLit(3))),
     Expr(6, Index(StrLit("bar"), IntLit(2))),
     Expr(7, Index(Ident("a"), IntLit(3))) >>

\* let k = [1]; let m = {k: 1, "x": !true}; m[[1]]; -5; "a" < "b";
\* is_null(m["y"]); sleep(0); true == false; 7 / -2; 5 + true
ProgOperators ==
  << Let(1, "k", Arr(<<IntLit(1)>>)),
     Let(2, "m", Hash(<<Pair(Ident("k"), IntLit(1)),
                        Pair(StrLit("x"), Prefix("!", BoolLit(TRUE)))>>)),
     Expr(3, Index(Ident("m"), Arr(<<IntLit(1)>>))),
     Expr(4, Prefix("-", IntLit(5))),
     Expr(5, Infix(StrLit("a"), "<", StrLit("b"))),
     Expr(6, Call(Ident("is_null"), <<Index(Ident("m"), StrLit("y"))>>)),
     Expr(7, Call(Ident("sleep"), <<IntLit(0)>>)),
     Expr(8, Infix(BoolLit(TRUE), "==", BoolLit(FALSE))),
     Expr(9, Infix(IntLit(7), "/", Prefix("-", IntLit(2)))),
     Expr(10, Infix(IntLit(5), "+", BoolLit(TRUE))) >>

\* let z = 0; 1 / z; 2
ProgDivideByZero ==
  << Let(1, "z", IntLit(0)),
     Expr(2, Infix(IntLit(1), "/", Ident("z"))),
     Expr(3, IntLit(2)) >>

\* let n = 0; while (true) { n = n + 1 }; n
ProgForever ==
  << Let(1, "n", IntLit(0)),
     While(2, BoolLit(TRUE),
           << Expr(3, Assign("n", Infix(Ident("n"), "+", IntLit(1)))) >>),
     Expr(4, Ident("n")) >>
\* let i = 0; while (i < 2) { if (i == 1) { y }; let y = 1; i = i + 1 }; i
ProgWhileScope ==
  << Let(1, "i", IntLit(0)),
     While(2, Infix(Ident("i"), "<", IntLit(2)),
        << Expr(3, If(Infix(Ident("i"), "==", IntLit(1)),
                      << Expr(4, Ident("y")) >>)),
           Let(5, "y", IntLit(1)),
           Expr(6, Assign("i", Infix(Ident("i"), "+", IntLit(1)))) >>),
     Expr(7, Ident("i")) >>

\* let i = 0; while (i < 3) { i = i + 1; if (true) { } }; i
ProgWhileNoValue ==
  << Let(1, "i", IntLit(0)),
     While(2, Infix(Ident("i"), "<", IntLit(3)),
        << Expr(3, Assign("i", Infix(Ident("i"), "+", IntLit(1)))),
           Expr(4, If(BoolLit(TRUE), << >>)) >>),
     Expr(5, Ident("i")) >>
\* let s = 0; if (0) { s = 1 } else { s = 2 }; if (null) { s = s + 10 }; s
ProgIfElse ==
  << Let(1, "s", IntLit(0)),
     Expr(2, IfElse(IntLit(0),
                    << Expr(3, Assign("s", IntLit(1))) >>,
                    << Expr(4, Assign("s", IntLit(2))) >>)),
     Expr(5, If(NullLit,
                << Expr(6, Assign("s", Infix(Ident("s"), "+", IntLit(10)))) >>)),
     Expr(7, Ident("s")) >>
\* let a = len("ab"); let len = 5; let f = fn(len) { len }; f(7) + len + a;
\* push; nope
ProgShadow ==
  << Let(1, "a", Call(Ident("len"), <<StrLit("ab")>>)),
     Let(2, "len", IntLit(5)),
     Let(3, "f", Fn(<<"len">>, << Expr(4, Ident("len")) >>)),
     Expr(5, Infix(Infix(Call(Ident("f"), <<IntLit(7)>>), "+", Ident("len")),
                   "+", Ident("a"))),
     Expr(6, Ident("push")),
     Expr(7, Ident("nope")) >>
\* let log = []; let t = fn(v) { push(log, v); v };
\* let f = fn(a, b) { push(log, 9); a + b };
\* f(t(1), t(2)); f(t(3), nope, t(4))
ProgCallOrder ==
  << Let(1, "log", Arr(<< >>)),
     Let(2, "t", Fn(<<"v">>,
        << Expr(3, Call(Ident("push"), <<Ident("log"), Ident("v")>>)),
           Expr(4, Ident("v")) >>)),
     Let(5, "f", Fn(<<"a", "b">>,
        << Expr(6, Call(Ident("push"), <<Ident("log"), IntLit(9)>>)),
           Expr(7, Infix(Ident("a"), "+", Ident("b"))) >>)),
     Expr(8, Call(Ident("f"), << Call(Ident("t"), <<IntLit(1)>>),
                                 Call(Ident("t"), <<IntLit(2)>>) >>)),
     Expr(9, Call(Ident("f"), << Call(Ident("t"), <<IntLit(3)>>),
                                 Ident("nope"),
                                 Call(Ident("t"), <<IntLit(4)>>) >>)) >>
\* print(0, 1, 2, 3, 4, 5, 6, 7, 8, 9, 10)
ProgPrintMany ==
  << Expr(1, Call(Ident("print"), [i \in 1..11 |-> IntLit(i - 1)])) >>
\* let a = [1]; push(a, 2); let p = pop(a); pop(a); pop(a); push(5, 1)
ProgPushPop ==
  << Let(1, "a", Arr(<<IntLit(1)>>)),
     Expr(2, Call(Ident("push"), <<Ident("a"), IntLit(2)>>)),
     Let(3, "p", Call(Ident("pop"), <<Ident("a")>>)),
     Expr(4, Call(Ident("pop"), <<Ident("a")>>)),
     Expr(5, Call(Ident("pop"), <<Ident("a")>>)),
     Expr(6, Call(Ident("push"), <<IntLit(5), IntLit(1)>>)) >>
\* let m = {1 + 1: "a", 2: "b"}; m[2]
ProgHashOrder ==
  << Let(1, "m", Hash(<< Pair(Infix(IntLit(1), "+", IntLit(1)), StrLit("a")),
                         Pair(IntLit(2), StrLit("b")) >>)),
     Expr(2, Index(Ident("m"), IntLit(2))) >>
\* let x = 1; x = nope
ProgAssignError ==
  << Let(1, "x", IntLit(1)),
     Expr(2, Assign("x", Ident("nope"))) >>

Programs ==
  << ProgWhile, ProgClosure, ProgCapture, ProgRecursion, ProgArrayAlias,
     ProgMapAlias, ProgErrorInContainer, ProgReturnLeak, ProgLetReturn,
     ProgReturnReturn, ProgStopAtError, ProgStopAtReturn, ProgNestedReturn,
     ProgWhileReturn, ProgReturnInOperand, ProgScopes, ProgIfScope,
     ProgLexical, ProgCallNonFunction, ProgPrint, ProgIndex, ProgOperators,
     ProgDivideByZero, ProgForever, ProgWhileScope, ProgWhileNoValue,
     ProgIfElse, ProgShadow, ProgCallOrder, ProgPrintMany,
     ProgPushPop,
     ProgHashOrder,
     ProgAssignError >>

Program == Programs[pid]

(***************************************************************************)
(* lexer/token.rs, lexer/tokenizer.rs.  A char is a one-character string;  *)
(* NULL_CHAR is '\0', a char that no input text holds.  A TokenType is the *)
(* name of the variant.  The Lexer record has the fields of the struct and *)
(* `panic`, set when a slice of `input` is out of range.                   *)
(***************************************************************************)
NULL_CHAR == "\\0"

new_token(token_type, literal) ==
  [token_type |-> token_type, literal |-> literal]

eof_token == new_token("Eof", NULL_CHAR)

look_up_identifier(ident) ==
  CASE ident = "fn" -> "Function"
    [] ident = "let" -> "Let"
    [] ident = "if" -> "If"
    [] ident = "else" -> "Else"
    [] ident = "return" -> "Return"
    [] ident = "while" -> "While"
    [] ident = "true" -> "True"
    [] ident = "false" -> "False"
    [] ident = "null" -> "Null"
    [] OTHER -> "Ident"

\* char::is_ascii_digit, is_ascii_alphabetic, is_ascii_whitespace
OneOf(ch, chars) == \E i \in 1..Len(chars) : CharAt(chars, i) = ch

is_ascii_digit(ch) == OneOf(ch, "0123456789")

is_ascii_alphabetic(ch) ==
  OneOf(ch, "abcdefghijklmnopqrstuvwxyzABCDEFGHIJKLMNOPQRSTUVWXYZ")

is_ascii_whitespace(ch) == OneOf(ch, " \t\n\f\r")

is_letter(ch) == is_ascii_alphabetic(ch) \/ ch = "_"

is_letter_or_digit(ch) ==
  is_ascii_alphabetic(ch) \/ ch = "_" \/ is_ascii_digit(ch)

Lexer_new(input) ==
  [input |-> input, position |-> 0, read_position |-> 0, ch |-> NULL_CHAR,
   panic |-> FALSE]

\* self.input[from..to] collected into a String; positions count from 0
Slice(l, from, to) ==
  IF from <= to /\ to <= Len(l.input) THEN SubSeq(l.input, from + 1, to)
  ELSE ""

SliceInRange(l, from, to) == from <= to /\ to <= Len(l.input)

\* Body(x), with x evaluated once however often Body uses it
Bind(x, Body(_)) == CHOOSE r \in {Body(v) : v \in {x}} : TRUE

read_char(self) == Bind(self, LAMBDA l :
  [l EXCEPT !.ch = IF l.read_position >= Len(l.input) THEN NULL_CHAR
                   ELSE CharAt(l.input, l.read_position + 1),
            !.position = l.read_position,
            !.read_position = l.read_position + 1])

peek_char(l) ==
  IF l.read_position < Len(l.input) THEN CharAt(l.input, l.read_position + 1)
  ELSE NULL_CHAR

\* while self.ch.is_ascii_whitespace() { self.read_char() }
RECURSIVE skip_whitespace(_)
skip_whitespace(self) == Bind(self, LAMBDA l :
  IF is_ascii_whitespace(l.ch) THEN skip_whitespace(read_char(l)) ELSE l)

\* the loop of read_identifier
RECURSIVE read_identifier_loop(_)
read_identifier_loop(self) == Bind(self, LAMBDA l :
  IF is_letter_or_digit(peek_char(l)) THEN read_identifier_loop(read_char(l))
  ELSE l)

\* the slice that ends read_identifier and read_number, from the position
\* the token began at
Sliced(l, from, to) ==
  [s |-> Slice(l, from, to),
   l |-> [l EXCEPT !.panic = @ \/ ~SliceInRange(l, from, to)]]

SlicedToRead(current_position, self) == Bind(self, LAMBDA l :
  Sliced(l, current_position, l.read_position))

read_identifier(l) == SlicedToRead(l.position, read_identifier_loop(l))

\* the loop of read_number
RECURSIVE read_number_loop(_)
read_number_loop(self) == Bind(self, LAMBDA l :
  IF is_ascii_digit(peek_char(l)) THEN read_number_loop(read_char(l)) ELSE l)

read_number(l) == SlicedToRead(l.position, read_number_loop(l))

\* read_string that takes the closing quote only: an unterminated literal
\* runs past the end of the input
RECURSIVE read_string_loop_QuoteOnly(_)
read_string_loop_QuoteOnly(self) == Bind(self, LAMBDA l :
  IF l.read_position > Len(l.input) + 1 THEN [l EXCEPT !.panic = TRUE]
  ELSE IF l.ch = "\"" THEN l
  ELSE read_string_loop_QuoteOnly(read_char(l)))

\* the loop of read_string, after its first read_char
RECURSIVE read_string_loop(_)
read_string_loop(self) == Bind(self, LAMBDA l :
  IF l.ch = "\"" \/ l.ch = NULL_CHAR THEN l
  ELSE read_string_loop(read_char(l)))

SlicedToPosition(position, self) == Bind(self, LAMBDA l :
  Sliced(l, position, l.position))

read_string(l) ==
  SlicedToPosition(l.position + 1, read_string_loop(read_char(l)))

\* the token of `match self.ch` together with the lexer it leaves
Lexed(token_type, read) == Bind(read, LAMBDA r :
  [tok |-> new_token(token_type, r.s), l |-> r.l])

LexedIdentifier(read) == Bind(read, LAMBDA r :
  [tok |-> new_token(look_up_identifier(r.s), r.s), l |-> r.l])

Single(token_type, l) == [tok |-> new_token(token_type, l.ch), l |-> l]

match_ch(self) == Bind(self, LAMBDA l :
  CASE l.ch = "=" ->
         IF peek_char(l) = "="
           THEN [tok |-> new_token("Eq", "=="), l |-> read_char(l)]
         ELSE Single("Assign", l)
    [] l.ch = ";" -> Single("Semicolon", l)
    [] l.ch = "(" -> Single("Lparen", l)
    [] l.ch = ")" -> Single("Rparen", l)
    [] l.ch = "," -> Single("Comma", l)
    [] l.ch = "+" -> Single("Plus", l)
    [] l.ch = "-" -> Single("Minus", l)
    [] l.ch = "!" ->
         IF peek_char(l) = "="
           THEN [tok |-> new_token("NotEq", "!="), l |-> read_char(l)]
         ELSE Single("Bang", l)
    [] l.ch = "*" -> Single("Asterisk", l)
    [] l.ch = "/" -> Single("Slash", l)
    [] l.ch = "<" -> Single("Lt", l)
    [] l.ch = ">" -> Single("Gt", l)
    [] l.ch = "{" -> Single("Lbrace", l)
    [] l.ch = "}" -> Single("Rbrace", l)
    [] l.ch = "\"" -> Lexed("String", read_string(l))
    [] l.ch = "[" -> Single("Lbracket", l)
    [] l.ch = "]" -> Single("Rbracket", l)
    [] l.ch = ":" -> Single("Colon", l)
    [] l.ch = NULL_CHAR -> Single("Eof", l)
    [] OTHER ->
         IF is_letter(l.ch) THEN LexedIdentifier(read_identifier(l))
         ELSE IF is_ascii_digit(l.ch) THEN Lexed("Int", read_number(l))
         ELSE Single("Illegal", l))

\* the first character of the input is read on the first call
FirstRead(l) == IF l.read_position = 0 THEN read_char(l) ELSE l

\* the read_char that ends next_token
ThenRead(matched) == Bind(matched, LAMBDA m :
  [tok |-> m.tok, l |-> read_char(m.l)])

Lexer_next_token(l) == ThenRead(match_ch(skip_whitespace(FirstRead(l))))

(***************************************************************************)
(* parser/mod.rs, parser/helpers.rs, parser/program.rs.  The Parser record *)
(* has the fields of the struct (without the tracer) and two counters of   *)
(* the model: `taken`, the number of tokens other than Eof that have moved *)
(* into current_token, and `stuck`, set when a loop of the parser goes     *)
(* round without taking a token.  A parse function returns Res(e, p): the  *)
(* node (Absent for None) and the parser it leaves.                        *)
(***************************************************************************)
Precedence ==
  [Lowest |-> 1, Equals |-> 2, LessGreater |-> 3, Sum |-> 4, Product |-> 5,
   Prefix |-> 6, Call |-> 7, Index |-> 8]

corresponding_precedence(token_type) ==
  CASE token_type \in {"Eq", "NotEq"} -> Precedence.Equals
    [] token_type \in {"Lt", "Gt"} -> Precedence.LessGreater
    [] token_type \in {"Plus", "Minus"} -> Precedence.Sum
    [] token_type \in {"Slash", "Asterisk"} -> Precedence.Product
    [] token_type = "Lparen" -> Precedence.Call
    [] token_type = "Lbracket" -> Precedence.Index
    [] OTHER -> Precedence.Lowest

Res(e, p) == [e |-> e, p |-> p]

\* `return None`
NoNode(p) == [e |-> Absent, p |-> p]

\* every parse function is reached through parse(kind, arg, p):
\*   "next_token" Parser::next_token, "statement" parse_statement,
\*   "expression" parse_expression(arg), "block" parse_block_statement
RECURSIVE parse(_, _, _)

Parser_next_token(p) ==
  LET t == Lexer_next_token(p.l)
  IN [p EXCEPT !.current_token = p.peek_token,
               !.peek_token = t.tok,
               !.l = t.l,
               !.taken = IF p.peek_token.token_type = "Eof" THEN @ ELSE @ + 1]

\* self.next_token() inside a parse function
next_token(p) == parse("next_token", Absent, p)

current_token_is(p, token_type) == p.current_token.token_type = token_type

peek_token_is(p, token_type) == p.peek_token.token_type = token_type

\* {:?} of a String
RECURSIVE escape_debug(_)
escape_debug(s) ==
  IF s = "" THEN ""
  ELSE (CASE CharAt(s, 1) = "\"" -> "\\\""
          [] CharAt(s, 1) = "\\" -> "\\\\"
          [] CharAt(s, 1) = "\n" -> "\\n"
          [] CharAt(s, 1) = "\t" -> "\\t"
          [] CharAt(s, 1) = "\r" -> "\\r"
          [] OTHER -> CharAt(s, 1))
       \o escape_debug(SubSeq(s, 2, Len(s)))

\* {:?} of a Token
DebugToken(tok) ==
  "Token { token_type: " \o tok.token_type \o ", literal: \""
  \o (IF tok.literal = NULL_CHAR THEN "\\0" ELSE escape_debug(tok.literal))
  \o "\" }"

\* peek_error that replaces the list of errors by the new message
peek_error_Replaces(p, token_type) ==
  [p EXCEPT !.errors =
     <<"expected next token to be " \o token_type \o ", got "
       \o DebugToken(p.peek_token) \o " instead">>]

peek_error(p, token_type) ==
  [p EXCEPT !.errors =
     Append(@, "expected next token to be " \o token_type \o ", got "
               \o DebugToken(p.peek_token) \o " instead")]

\* the bool that expect_peek returns and the parser it leaves
expect_peek(p, token_type) ==
  IF peek_token_is(p, token_type) THEN [ok |-> TRUE, p |-> next_token(p)]
  ELSE [ok |-> FALSE, p |-> peek_error(p, token_type)]

no_prefix_parse_fn_error(p, token_type) ==
  [p EXCEPT !.errors =
     Append(@, "no prefix parse function for " \o token_type \o " found")]

peek_precedence(p) == corresponding_precedence(p.peek_token.token_type)

current_precedence(p) == corresponding_precedence(p.current_token.token_type)

\* the optional `;` that ends a statement
SkipSemicolon(p) == IF peek_token_is(p, "Semicolon") THEN next_token(p) ELSE p

Parser_new(l) ==
  Parser_next_token(Parser_next_token(
    [l |-> l, errors |-> << >>, current_token |-> eof_token,
     peek_token |-> eof_token, taken |-> 0, stuck |-> FALSE]))

(***************************************************************************)
(* parser/parse_expressions.rs                                             *)
(***************************************************************************)
parse_identifier(p) == Res(Ident(p.current_token.literal), p)

\* the value of a string of digits
RECURSIVE DigitsValue(_)
DigitsValue(s) ==
  IF s = "" THEN 0
  ELSE DigitsValue(SubSeq(s, 1, Len(s) - 1)) * 10
       + (Rank(CharAt(s, Len(s))) - Rank("0"))

RECURSIVE StripZeros(_)
StripZeros(s) ==
  IF Len(s) > 1 /\ CharAt(s, 1) = "0" THEN StripZeros(SubSeq(s, 2, Len(s)))
  ELSE s

\* str::parse::<i64> of a string of digits fails above i64::MAX
PosOverflow(s) ==
  \/ Len(StripZeros(s)) > 19
  \/ /\ Len(StripZeros(s)) = 19
     /\ StrLess("9223372036854775807", StripZeros(s))

parse_integer_literal(p) ==
  IF PosOverflow(p.current_token.literal)
    THEN NoNode([p EXCEPT !.errors =
           Append(@, "could not parse as integer: "
                     \o "ParseIntError { kind: PosOverflow }")])
  ELSE Res(IntLit(DigitsValue(p.current_token.literal)), p)

parse_string_literal(p) == Res(StrLit(p.current_token.literal), p)

parse_null_literal(p) == Res(NullLit, p)

parse_boolean_expression(p) == Res(BoolLit(current_token_is(p, "True")), p)

parse_grouped_expression(p) ==
  LET expr == parse("expression", Precedence.Lowest, next_token(p))
      closed == expect_peek(expr.p, "Rparen")
  IN IF closed.ok THEN Res(expr.e, closed.p) ELSE NoNode(closed.p)

parse_prefix_expression(p) ==
  LET right == parse("expression", Precedence.Prefix, next_token(p))
  IN Res(Prefix(p.current_token.literal, right.e), right.p)

\* an infix expression that parses its right operand one level lower, which
\* groups operators of equal precedence to the right
parse_infix_expression_RightAssoc(p, left) ==
  LET right == parse("expression", current_precedence(p) - 1, next_token(p))
  IN Res(Infix(left, p.current_token.literal, right.e), right.p)

parse_infix_expression(p, left) ==
  LET right == parse("expression", current_precedence(p), next_token(p))
  IN Res(Infix(left, p.current_token.literal, right.e), right.p)

\* a loop of the parser went round from p to q without taking a token
Stuck(p, q) == [q EXCEPT !.stuck = (q.taken = p.taken)]

\* parse_block_statement that does not step over the token a statement
\* ends on
RECURSIVE parse_block_statement_loop_NoAdvance(_, _)
parse_block_statement_loop_NoAdvance(p, statements) ==
  IF current_token_is(p, "Rbrace") \/ current_token_is(p, "Eof")
    THEN Res(statements, p)
  ELSE LET stmt == parse("statement", Absent, p)
           pushed == IF stmt.e = Absent THEN statements
                     ELSE Append(statements, stmt.e)
       IN IF Stuck(p, stmt.p).stuck THEN Res(pushed, Stuck(p, stmt.p))
          ELSE parse_block_statement_loop_NoAdvance(stmt.p, pushed)

\* the loop of parse_block_statement
RECURSIVE parse_block_statement_loop(_, _)
parse_block_statement_loop(p, statements) ==
  IF current_token_is(p, "Rbrace") \/ current_token_is(p, "Eof")
    THEN Res(statements, p)
  ELSE LET stmt == parse("statement", Absent, p)
           q == next_token(stmt.p)
           pushed == IF stmt.e = Absent THEN statements
                     ELSE Append(statements, stmt.e)
       IN IF ~current_token_is(q, "Rbrace") /\ ~current_token_is(q, "Eof")
             /\ Stuck(p, q).stuck
            THEN Res(pushed, Stuck(p, q))
          ELSE parse_block_statement_loop(q, pushed)

\* BlockStatement.statements and the parser, which stands on `}` or Eof
parse_block_statement(p) == parse_block_statement_loop(next_token(p), << >>)

\* Option<Vec<..>>: ok is FALSE for None
Some(list, p) == [ok |-> TRUE, e |-> list, p |-> p]

NoList(p) == [ok |-> FALSE, e |-> << >>, p |-> p]

\* the names of the parameters, in order
RECURSIVE parse_fn_literal_parameters(_, _)
parse_fn_literal_parameters(p, parameters) ==
  IF peek_token_is(p, "Rparen") THEN Some(parameters, p)
  ELSE LET ident == expect_peek(p, "Ident")
           pushed == Append(parameters, ident.p.current_token.literal)
           comma == expect_peek(ident.p, "Comma")
       IN IF ~ident.ok THEN NoList(ident.p)
          ELSE IF peek_token_is(ident.p, "Rparen") THEN Some(pushed, ident.p)
          ELSE IF ~comma.ok THEN NoList(comma.p)
          ELSE IF Stuck(p, comma.p).stuck
            THEN NoList(Stuck(p, comma.p))
          ELSE parse_fn_literal_parameters(comma.p, pushed)

RECURSIVE parse_comma_sep_arguments(_, _, _)
parse_comma_sep_arguments(p, end, args) ==
  IF peek_token_is(p, end) THEN Some(args, p)
  ELSE LET arg == parse("expression", Precedence.Lowest, next_token(p))
           comma == expect_peek(arg.p, "Comma")
       IN IF arg.e = Absent THEN NoList(arg.p)
          ELSE IF peek_token_is(arg.p, end) THEN Some(Append(args, arg.e), arg.p)
          ELSE IF ~comma.ok THEN NoList(comma.p)
          ELSE IF Stuck(p, comma.p).stuck
            THEN NoList(Stuck(p, comma.p))
          ELSE parse_comma_sep_arguments(comma.p, end, Append(args, arg.e))

parse_if_expression(p) ==
  LET lparen == expect_peek(p, "Lparen")
      condition == parse("expression", Precedence.Lowest, next_token(lparen.p))
      rparen == expect_peek(condition.p, "Rparen")
      lbrace == expect_peek(rparen.p, "Lbrace")
      consequence == parse("block", Absent, lbrace.p)
      else_lbrace == expect_peek(next_token(consequence.p), "Lbrace")
      alternative == parse("block", Absent, else_lbrace.p)
  IN IF ~lparen.ok THEN NoNode(lparen.p)
     ELSE IF condition.e = Absent THEN NoNode(condition.p)
     ELSE IF ~rparen.ok THEN NoNode(rparen.p)
     ELSE IF ~lbrace.ok THEN NoNode(lbrace.p)
     ELSE IF ~peek_token_is(consequence.p, "Else")
       THEN Res(If(condition.e, consequence.e), consequence.p)
     ELSE IF ~else_lbrace.ok THEN NoNode(else_lbrace.p)
     ELSE Res(IfElse(condition.e, consequence.e, alternative.e),
              alternative.p)

parse_function_literal(p) ==
  LET lparen == expect_peek(p, "Lparen")
      parameters == parse_fn_literal_parameters(lparen.p, << >>)
      lbrace == expect_peek(next_token(parameters.p), "Lbrace")
      body == parse("block", Absent, lbrace.p)
  IN IF ~lparen.ok THEN NoNode(lparen.p)
     ELSE IF ~parameters.ok THEN NoNode(parameters.p)
     ELSE IF ~lbrace.ok THEN NoNode(lbrace.p)
     ELSE Res(Fn(parameters.e, body.e), body.p)

parse_call_expression(p, left) ==
  LET arguments == parse_comma_sep_arguments(p, "Rparen", << >>)
  IN IF left = Absent THEN NoNode(p)
     ELSE IF ~arguments.ok THEN NoNode(arguments.p)
     ELSE Res(Call(left, arguments.e), next_token(arguments.p))

parse_array_literal(p) ==
  LET elements == parse_comma_sep_arguments(p, "Rbracket", << >>)
  IN IF ~elements.ok THEN NoNode(elements.p)
     ELSE Res(Arr(elements.e), next_token(elements.p))

parse_index_expressions(p, left) ==
  LET index == parse("expression", Precedence.Lowest, next_token(p))
      colon == peek_token_is(index.p, "Colon")
      right == IF colon
                 THEN parse("expression", Precedence.Lowest,
                            next_token(next_token(index.p)))
               ELSE NoNode(index.p)
      rbracket == expect_peek(right.p, "Rbracket")
  IN IF ~rbracket.ok THEN NoNode(rbracket.p)
     ELSE IF left = Absent \/ index.e = Absent THEN NoNode(rbracket.p)
     ELSE IF right.e = Absent THEN Res(Index(left, index.e), rbracket.p)
     ELSE Res(Range(left, index.e, right.e), rbracket.p)

\* HashMap::insert on HashLiteral.pairs: a key that is there keeps its place
\* and takes the new value
PairsInsert(pairs, key, value) ==
  IF \E i \in 1..Len(pairs) : pairs[i].key = key
    THEN [i \in 1..Len(pairs) |->
            IF pairs[i].key = key THEN Pair(key, value) ELSE pairs[i]]
  ELSE Append(pairs, Pair(key, value))

\* the loop of parse_hash_literal
RECURSIVE parse_hash_literal_loop(_, _)
parse_hash_literal_loop(p, pairs) ==
  IF peek_token_is(p, "Rbrace") THEN Some(pairs, p)
  ELSE LET key == parse("expression", Precedence.Lowest, next_token(p))
           colon == expect_peek(key.p, "Colon")
           value == parse("expression", Precedence.Lowest, next_token(colon.p))
           comma == IF peek_token_is(value.p, "Rbrace")
                      THEN [ok |-> TRUE, p |-> value.p]
                    ELSE expect_peek(value.p, "Comma")
       IN IF key.e = Absent THEN NoList(key.p)
          ELSE IF ~colon.ok THEN NoList(colon.p)
          ELSE IF value.e = Absent THEN NoList(value.p)
          ELSE IF ~comma.ok THEN NoList(comma.p)
          ELSE IF Stuck(p, comma.p).stuck
            THEN NoList(Stuck(p, comma.p))
          ELSE parse_hash_literal_loop(comma.p,
                                       PairsInsert(pairs, key.e, value.e))

parse_hash_literal(p) ==
  LET pairs == parse_hash_literal_loop(p, << >>)
      rbrace == expect_peek(pairs.p, "Rbrace")
  IN IF ~pairs.ok THEN NoNode(pairs.p)
     ELSE IF ~rbrace.ok THEN NoNode(rbrace.p)
     ELSE Res(Hash(pairs.e), rbrace.p)

\* Parser::prefix_parse_function applied to the parser; the token types
\* that have one are PrefixTypes
PrefixTypes ==
  {"Ident", "Int", "String", "Bang", "Minus", "Plus", "True", "False",
   "Lparen", "If", "Function", "Lbracket", "Lbrace", "Null"}

prefix_parse_function(token_type, p) ==
  CASE token_type = "Ident" -> parse_identifier(p)
    [] token_type = "Int" -> parse_integer_literal(p)
    [] token_type = "String" -> parse_string_literal(p)
    [] token_type \in {"Bang", "Minus", "Plus"} -> parse_prefix_expression(p)
    [] token_type \in {"True", "False"} -> parse_boolean_expression(p)
    [] token_type = "Lparen" -> parse_grouped_expression(p)
    [] token_type = "If" -> parse_if_expression(p)
    [] token_type = "Function" -> parse_function_literal(p)
    [] token_type = "Lbracket" -> parse_array_literal(p)
    [] token_type = "Lbrace" -> parse_hash_literal(p)
    [] token_type = "Null" -> parse_null_literal(p)

\* Parser::infix_parse_function applied to the parser and the left operand
InfixTypes ==
  {"Plus", "Minus", "Asterisk", "Slash", "Eq", "NotEq", "Lt", "Gt",
   "Lparen", "Lbracket"}

infix_parse_function(token_type, p, left) ==
  CASE token_type = "Lparen" -> parse_call_expression(p, left)
    [] token_type = "Lbracket" -> parse_index_expressions(p, left)
    [] OTHER -> parse_infix_expression(p, left)

\* the loop of parse_expression; an iteration takes the operator token
RECURSIVE parse_expression_loop(_, _, _)
parse_expression_loop(precedence, left_expr, p) ==
  IF peek_token_is(p, "Semicolon") \/ ~(precedence < peek_precedence(p))
    THEN Res(left_expr, p)
  ELSE IF p.peek_token.token_type \notin InfixTypes THEN Res(left_expr, p)
  ELSE LET infix == infix_parse_function(p.peek_token.token_type,
                                         next_token(p), left_expr)
       IN parse_expression_loop(precedence, infix.e, infix.p)

parse_expression(precedence, p) ==
  IF p.current_token.token_type \notin PrefixTypes
    THEN NoNode(no_prefix_parse_fn_error(p, p.current_token.token_type))
  ELSE LET prefix == prefix_parse_function(p.current_token.token_type, p)
       IN parse_expression_loop(precedence, prefix.e, prefix.p)

parse_assignment_expressions(p) ==
  LET value == parse("expression", Precedence.Lowest,
                     next_token(next_token(p)))
  IN IF value.e = Absent THEN NoNode(value.p)
     ELSE Res(Assign(p.current_token.literal, value.e), value.p)

parse_expression_statement(p) ==
  LET expression ==
        IF current_token_is(p, "Ident") /\ peek_token_is(p, "Assign")
          THEN parse_assignment_expressions(p)
        ELSE parse("expression", Precedence.Lowest, p)
  IN Res(Expr(0, expression.e), SkipSemicolon(expression.p))

(***************************************************************************)
(* parser/parse_statements.rs.  The statements the parser makes have id 0. *)
(***************************************************************************)
parse_let_statement(p) ==
  LET ident == expect_peek(p, "Ident")
      assign == expect_peek(ident.p, "Assign")
      value == parse("expression", Precedence.Lowest, next_token(assign.p))
  IN IF ~ident.ok THEN NoNode(ident.p)
     ELSE IF ~assign.ok THEN NoNode(assign.p)
     ELSE IF value.e = Absent THEN NoNode(value.p)
     ELSE Res(Let(0, ident.p.current_token.literal, value.e),
              SkipSemicolon(value.p))

parse_return_statement(p) ==
  LET return_value == parse("expression", Precedence.Lowest, next_token(p))
  IN IF return_value.e = Absent THEN NoNode(return_value.p)
     ELSE Res(Return(0, return_value.e), SkipSemicolon(return_value.p))

parse_while_statement(p) ==
  LET lparen == expect_peek(p, "Lparen")
      condition == parse("expression", Precedence.Lowest, next_token(lparen.p))
      rparen == expect_peek(condition.p, "Rparen")
      lbrace == expect_peek(rparen.p, "Lbrace")
      body == parse("block", Absent, lbrace.p)
  IN IF ~lparen.ok THEN NoNode(lparen.p)
     ELSE IF condition.e = Absent THEN NoNode(condition.p)
     ELSE IF ~rparen.ok THEN NoNode(rparen.p)
     ELSE IF ~lbrace.ok THEN NoNode(lbrace.p)
     ELSE Res(While(0, condition.e, body.e), body.p)

parse_statement(p) ==
  CASE p.current_token.token_type = "Let" -> parse_let_statement(p)
    [] p.current_token.token_type = "Return" -> parse_return_statement(p)
    [] p.current_token.token_type = "While" -> parse_while_statement(p)
    [] OTHER -> parse_expression_statement(p)

parse(kind, arg, p) ==
  CASE kind = "next_token" -> Parser_next_token(p)
    [] kind = "statement" -> parse_statement(p)
    [] kind = "expression" -> parse_expression(arg, p)
    [] kind = "block" -> parse_block_statement(p)

\* no parser has been made
ParserIdle ==
  /\ parser = Parser_new(Lexer_new(""))
  /\ program = << >>
  /\ parsing = "idle"

(***************************************************************************)
(* main.rs / repl.rs: a run is eval(program.make_node(), Environment::new())*)
(***************************************************************************)
RootEnv == 1

InitHeap ==
  [envs |-> <<Environment(0)>>, arrays |-> << >>, maps |-> << >>,
   funcs |-> << >>, trace |-> << >>, out |-> "",
   panic |-> FALSE, diverged |-> FALSE]

Init ==
  /\ pid \in 1..Len(Programs)
  /\ pc = 1
  /\ heap = InitHeap
  /\ result = NONE
  /\ status = "running"
  /\ prependMaps \in SUBSET (1..MaxMaps)
  /\ litRev \in BOOLEAN
  /\ lexer = Lexer_new("")
  /\ toks = << >>
  /\ ParserIdle

\* one pass of `for stmt in stmts` of eval_program: the statement at pc
Evaluated == eval(Program[pc], RootEnv, heap)

\* eval_program without the early return on an Error
EvalProgramStep_IgnoresError ==
  /\ status = "running"
  /\ pc <= Len(Program)
  /\ \E r \in {Evaluated} :
     /\ ~r.st.panic
     /\ ~r.st.diverged
     /\ heap' = r.st
     /\ pc' = pc + 1
     /\ IF r.v # NONE /\ IsReturnValue(r.v)
          THEN result' = Unbox(r.v) /\ status' = "returned"
        ELSE result' = r.v /\ status' = status
  /\ UNCHANGED <<pid, prependMaps, litRev, frontVars>>

\* the statement ran to its end: the match on `result`
EvalProgramStep ==
  /\ status = "running"
  /\ pc <= Len(Program)
  /\ \E r \in {Evaluated} :
     /\ ~r.st.panic
     /\ ~r.st.diverged
     /\ heap' = r.st
     /\ pc' = pc + 1
     /\ IF r.v # NONE /\ IsReturnValue(r.v)
          THEN result' = Unbox(r.v) /\ status' = "returned"
        ELSE IF r.v # NONE /\ is_error(r.v)
          THEN result' = r.v /\ status' = "returned"
        ELSE result' = r.v /\ status' = status
  /\ UNCHANGED <<pid, prependMaps, litRev, frontVars>>

\* the end of the loop: eval_program returns `result`
EvalProgramReturn ==
  /\ status = "running"
  /\ pc > Len(Program)
  /\ status' = "returned"
  /\ UNCHANGED <<pid, pc, heap, result, prependMaps, litRev, frontVars>>

\* the statement panicked (division by zero, BorrowError): the process ends
EvalProgramPanic ==
  /\ status = "running"
  /\ pc <= Len(Program)
  /\ \E r \in {Evaluated} : r.st.panic
  /\ status' = "panicked"
  /\ UNCHANGED <<pid, pc, heap, result, prependMaps, litRev, frontVars>>

\* the statement never ends (a while loop that runs past MaxIter)
EvalProgramDiverge ==
  /\ status = "running"
  /\ pc <= Len(Program)
  /\ \E r \in {Evaluated} : ~r.st.panic /\ r.st.diverged
  /\ status' = "diverged"
  /\ UNCHANGED <<pid, pc, heap, result, prependMaps, litRev, frontVars>>

Next ==
  \/ EvalProgramStep
  \/ EvalProgramReturn
  \/ EvalProgramPanic
  \/ EvalProgramDiverge

Spec == Init /\ [][Next]_vars

(***************************************************************************)
(* The lexer on its own: a caller (the parser's next_token, the REPL) that *)
(* asks for token after token.                                             *)
(***************************************************************************)
LexerInputs ==
  << "=+(){},;",
     "let five = 5;",
     "let add = fn(x, y) { x + y; };",
     "!-/*5; 5 < 10 > 5;",
     "if (5 < 10) { return true; } else { return false; }",
     "10 == 10; 10 != 9;",
     "\"foobar\" \"foo bar\"",
     "[1, 2]; {\"foo\": \"bar\"}",
     "while (x < 3) { x = x + 1 }",
     "a_b2 ? null @",
     "",
     " \t\n\r ",
     "let s = \"abc",
     "\"",
     "x + \"a b ",
     "print(\"a\", \"b\n" >>

\* the evaluator is idle while the front end is driven
EvalIdle ==
  /\ pid = 1
  /\ pc = 1
  /\ heap = InitHeap
  /\ result = NONE
  /\ status = "idle"
  /\ prependMaps = {}
  /\ litRev = FALSE

LexerInit ==
  /\ EvalIdle
  /\ ParserIdle
  /\ lexer \in {Lexer_new(LexerInputs[i]) : i \in 1..Len(LexerInputs)}
  /\ toks = << >>

\* one call of Lexer::next_token
NextToken ==
  /\ ~lexer.panic
  /\ lexer.read_position <= Len(lexer.input) + MaxPastEnd
  /\ \E r \in {Lexer_next_token(lexer)} :
     /\ lexer' = r.l
     /\ toks' = Append(toks, r.tok)
  /\ UNCHANGED <<evalVars, parser, program, parsing>>

LexerNext == NextToken

\* the caller goes on asking
LexerSpec == LexerInit /\ [][LexerNext]_vars /\ WF_vars(NextToken)

(***************************************************************************)
(* parse_program (parser/program.rs) on the texts of Sources: one action   *)
(* for an iteration of its loop and one for its end.                       *)
(***************************************************************************)
Sources ==
  << "a + b + c",
     "a + b * c + d / e - f",
     "-a * b",
     "a * [1, 2, 3, 4][b * c] * d",
     "3 + 4; -5 * 5",
     "5 > 4 == 3 < 4; 5 < 4 != 3 > 4",
     "!-a; a + b - c; a * b / c",
     "1 + (2 + 3) + 4; (5 + 5) * 2; -(5 + 5); !(true == true)",
     "a + add(b * c) + d; add(a, b, 1, 2 * 3, add(6, 7 * 8))",
     "add(a * b[2], b[1], 2 * [1, 2][1]); a[1:3]; a[1:]",
     "let x = 5; let y = true; let foobar = y;",
     "return 5; return x + y",
     "x = x + 1; x",
     "\"hello world\"; \"a\" + \"b\"",
     "if (x < y) { x }; if (x < y) { x } else { y; z }",
     "if (x) { y }",
     "fn(x, y) { x + y; }; fn() { 1 }; fn(x) { x }(2)",
     "fn(x, x) { x }",
     "while (x < 3) { x = x + 1; print(x) } x",
     "{\"one\": 1, \"two\": 2}; {}; {1 + 1: \"a\", 2: \"b\"}; {1: 2, 1: 3}",
     "[1, 2 * 2, 3 + 3]; []; null; true != false",
     "let = 5; let y = 3; y",
     "let x 5; let 838383; 1 + 2",
     "(1 + 2; 3",
     "if (x { y } z",
     "if x { y }; fn x; fn(1) { }",
     "add(1, 2; [1, 2; {1: 2; {1 2}; {1: }",
     "fn(x { x }; fn(x, ) { x }; fn(x y) { x }",
     "while x { y }; while (x) y; while (x { y }",
     "{ x } } ) ] , : ; = 1",
     "if (x) { let y = ; fn(a) { [1, ",
     "99999999999999999999 + 1; 2147483647 ? 2",
     "a[1; a[1:2; a[; a[1:",
     "+a; x = ; return ; * 2; @",
     "let s = \"abc",
     "" >>

\* the binary and the prefix operators of the language
BinaryOps == <<"==", "!=", "<", ">", "+", "-", "*", "/">>

PrefixOps == <<"!", "-", "+">>

\* two binary operators in a row; a prefix operator before a binary one; a
\* call and an index after an operator
TwoOperators(o1, o2) == "a " \o o1 \o " b " \o o2 \o " c"

PrefixThenBinary(pre, op) == pre \o "a " \o op \o " b"

CallAfter(op) == "a " \o op \o " b(c)"

IndexAfter(op) == "a " \o op \o " b[c]"

OperatorSources ==
  {TwoOperators(BinaryOps[i], BinaryOps[j]) :
     i \in 1..Len(BinaryOps), j \in 1..Len(BinaryOps)}
  \cup {PrefixThenBinary(PrefixOps[i], BinaryOps[j]) :
          i \in 1..Len(PrefixOps), j \in 1..Len(BinaryOps)}
  \cup {CallAfter(BinaryOps[i]) : i \in 1..Len(BinaryOps)}
  \cup {IndexAfter(BinaryOps[i]) : i \in 1..Len(BinaryOps)}
  \cup {PrefixOps[i] \o "a(b)" : i \in 1..Len(PrefixOps)}
  \cup {PrefixOps[i] \o "a[b]" : i \in 1..Len(PrefixOps)}

ParserInit ==
  /\ EvalIdle
  /\ lexer = Lexer_new("")
  /\ toks = << >>
  /\ parser \in {Parser_new(Lexer_new(text)) :
                   text \in {Sources[i] : i \in 1..Len(Sources)}
                            \cup OperatorSources}
  /\ program = << >>
  /\ parsing = "parsing"

\* one iteration of `while self.current_token.token_type != TokenType::Eof`
ParseProgramStep ==
  /\ parsing = "parsing"
  /\ ~parser.stuck
  /\ parser.current_token.token_type # "Eof"
  /\ \E stmt \in {parse("statement", Absent, parser)} :
     /\ parser' = Parser_next_token(stmt.p)
     /\ program' = IF stmt.e = Absent THEN program
                   ELSE Append(program, stmt.e)
  /\ UNCHANGED <<evalVars, lexer, toks, parsing>>

\* the end of the loop: parse_program returns `program`
ParseProgramReturn ==
  /\ parsing = "parsing"
  /\ parser.current_token.token_type = "Eof"
  /\ parsing' = "parsed"
  /\ UNCHANGED <<evalVars, lexer, toks, parser, program>>

ParserNext ==
  \/ ParseProgramStep
  \/ ParseProgramReturn

ParserSpec == ParserInit /\ [][ParserNext]_vars

\* the loop of parse_program, run to its end
RECURSIVE parse_program_loop(_, _)
parse_program_loop(p, statements) ==
  IF p.current_token.token_type = "Eof" THEN Res(statements, p)
  ELSE LET stmt == parse("statement", Absent, p)
       IN parse_program_loop(Parser_next_token(stmt.p),
                             IF stmt.e = Absent THEN statements
                             ELSE Append(statements, stmt.e))

\* Program.statements of the text, and the parser with its errors
parse_program(text) == parse_program_loop(Parser_new(Lexer_new(text)), << >>)

\* Display for Program
Program_to_string(statements) ==
  Join([i \in 1..Len(statements) |-> to_string(statements[i]) \o "\n"], "")

(***************************************************************************)
(* Inputs of the properties below: names, values and expressions that are  *)
(* evaluated against the store of every reachable state.                   *)
(***************************************************************************)
\* names bound by some program (x, a), a builtin (len) and a free name (q)
TestNames == {"x", "a", "len", "q"}

Envs == 1..Len(heap.envs)

\* expressions that yield an Error, and one that does not
ErrorSources ==
  << Ident("nowhere"),
     Infix(IntLit(5), "+", BoolLit(TRUE)),
     Prefix("-", BoolLit(TRUE)),
     Index(Arr(<<IntLit(1)>>), IntLit(3)),
     IntLit(3) >>

\* the expression and statement forms that have `e` as a direct
\* sub-expression; the other sub-expressions are literals
EnclosingForms(e) ==
  << Prefix("-", e),
     Prefix("!", e),
     Infix(e, "+", IntLit(1)),
     Infix(IntLit(1), "+", e),
     If(e, << Expr(0, IntLit(1)) >>),
     Call(e, << >>),
     Call(Ident("len"), <<e>>),
     Call(Fn(<<"p", "q">>, << Expr(0, Ident("p")) >>), <<IntLit(1), e>>),
     Let(0, "t", e),
     Return(0, e),
     Arr(<<IntLit(1), e>>),
     Hash(<<Pair(e, IntLit(1))>>),
     Hash(<<Pair(IntLit(1), e)>>),
     Index(e, IntLit(0)),
     Index(Arr(<<IntLit(1)>>), e),
     Range(e, IntLit(0), IntLit(1)),
     Range(Arr(<<IntLit(1)>>), e, IntLit(1)),
     Range(Arr(<<IntLit(1)>>), IntLit(0), e),
     Assign("x", e),
     Assign("q", e) >>

\* C1: whenever a direct sub-expression evaluates to an Error, the
\* enclosing expression (prefix, infix, if, call, let, return, array and
\* hash literal, index, range, assignment) evaluates to that same Error.
C1_ErrorPropagates ==
  \A env \in Envs : \A j \in 1..Len(ErrorSources) :
    LET e == ErrorSources[j]
        sub == eval(e, env, heap).v
    IN is_error(sub) =>
         \A i \in 1..Len(EnclosingForms(e)) :
           eval(EnclosingForms(e)[i], env, heap).v = sub

\* C2: no Array element, no HashMap key or value and no ReturnValue
\* payload is an Error.
C2_NoErrorInContainers ==
  /\ \A a \in 1..Len(heap.arrays) : \A i \in 1..Len(heap.arrays[a]) :
        heap.arrays[a][i].t # "ERROR"
  /\ \A m \in 1..Len(heap.maps) : \A i \in 1..Len(heap.maps[m]) :
        heap.maps[m][i].k.t # "ERROR" /\ heap.maps[m][i].v.t # "ERROR"
  /\ \A env \in Envs : \A x \in DOMAIN heap.envs[env].store :
        ~(IsReturnValue(heap.envs[env].store[x])
          /\ heap.envs[env].store[x].t = "ERROR")
  /\ ~(IsReturnValue(result) /\ result.t = "ERROR")

\* C3: a ReturnValue is never observable: no binding of an environment
\* (let variable, bound parameter, builtin argument), no Array element, no
\* HashMap entry and no result of a program is a ReturnValue.
C3_ReturnValueNeverExposed ==
  /\ \A env \in Envs : \A x \in DOMAIN heap.envs[env].store :
        ~IsReturnValue(heap.envs[env].store[x])
  /\ \A a \in 1..Len(heap.arrays) : \A i \in 1..Len(heap.arrays[a]) :
        ~IsReturnValue(heap.arrays[a][i])
  /\ \A m \in 1..Len(heap.maps) : \A i \in 1..Len(heap.maps[m]) :
        ~IsReturnValue(heap.maps[m][i].k) /\ ~IsReturnValue(heap.maps[m][i].v)
  /\ status = "returned" => ~IsReturnValue(result)
  /\ status = "returned" /\ is_error(result) =>
        result # type_mismatch(Integer(1), "+", ReturnValue(Integer(2)))

\* ids of the top-level statements of the program, in source order
TopIds == [i \in 1..Len(Program) |-> Program[i].id]

\* the entries of a trace that are ids of top-level statements
RECURSIVE TopOnly(_)
TopOnly(tr) ==
  IF Len(tr) = 0 THEN << >>
  ELSE IF \E i \in 1..Len(Program) : TopIds[i] = tr[1]
    THEN <<tr[1]>> \o TopOnly(Tail(tr))
  ELSE TopOnly(Tail(tr))

\* C4: eval_program evaluates the top-level statements in source order;
\* it stops at the first statement that yields an Error (the result is
\* that Error) or a ReturnValue (the result is its inner value), after
\* which nothing is evaluated and the store no longer changes; otherwise
\* the result is the value of the last statement.
C4_ProgramOrder ==
  /\ [](status \in {"running", "returned"} =>
          TopOnly(heap.trace) = SubSeq(TopIds, 1, pc - 1))
  /\ [][status = "running"]_vars
  /\ [][pc <= Len(Program)
          /\ ~Evaluated.st.panic /\ ~Evaluated.st.diverged =>
            /\ heap' = Evaluated.st
            /\ pc' = pc + 1
            /\ IF Evaluated.v # NONE /\ is_error(Evaluated.v)
                 THEN status' = "returned" /\ result' = Evaluated.v
               ELSE IF Evaluated.v # NONE /\ IsReturnValue(Evaluated.v)
                 THEN status' = "returned" /\ result' = Unbox(Evaluated.v)
               ELSE status' = "running" /\ result' = Evaluated.v]_vars
  /\ [][pc > Len(Program) =>
            status' = "returned" /\ result' = result /\ heap' = heap]_vars

\* the run of `let a = []; push(a, 1); foo; push(a, 2); a` has stopped at
\* `foo`: a holds one element and the result is the Error
C4_Witness ==
  /\ Program = ProgStopAtError
  /\ status = "returned"
  /\ pc = 4
  /\ heap.arrays[1] = <<Integer(1)>>
  /\ result = identifier_not_found("foo")

\* function bodies in which `return 1` executes inside if/else/while
\* blocks; the statements numbered 101 to 103 come after the block that
\* holds the return
ReturnBodies ==
  << \* if (true) { return 1 }; 0
     << Expr(110, If(BoolLit(TRUE), << Return(111, IntLit(1)) >>)),
        Expr(101, IntLit(0)) >>,
     \* while (true) { if (true) { return 1 }; 0 }; 0
     << While(110, BoolLit(TRUE),
          << Expr(111, If(BoolLit(TRUE), << Return(112, IntLit(1)) >>)),
             Expr(101, IntLit(0)) >>),
        Expr(102, IntLit(0)) >>,
     \* if (false) { 0 } else { while (true) { return 1 }; 0 }; 0
     << Expr(110, IfElse(BoolLit(FALSE),
          << Expr(103, IntLit(0)) >>,
          << While(111, BoolLit(TRUE), << Return(112, IntLit(1)) >>),
             Expr(101, IntLit(0)) >>)),
        Expr(102, IntLit(0)) >>,
     \* [if (true) { return 1 }]; 0
     << Expr(110, Arr(<<If(BoolLit(TRUE), << Return(111, IntLit(1)) >>)>>)),
        Expr(101, IntLit(0)) >>,
     \* 5 + if (true) { return 1 }; 0
     << Expr(110, Infix(IntLit(5), "+",
                        If(BoolLit(TRUE), << Return(111, IntLit(1)) >>))),
        Expr(101, IntLit(0)) >> >>

\* the caller of a function with the given body:
\* let t = fn() { body }(); t + 1
Caller(body) ==
  << Let(100, "t", Call(Fn(<< >>, body), << >>)),
     Expr(109, Infix(Ident("t"), "+", IntLit(1))) >>

\* C5: when a return statement executes inside a function body, at any
\* nesting depth of if/else/while blocks, no later statement of an
\* enclosing block of the body is evaluated, the call yields the returned
\* value unwrapped once, and the caller goes on with what follows the call.
C5_ReturnEndsCallee ==
  /\ \A env \in Envs : \A i \in 1..Len(ReturnBodies) :
       LET r == eval_block_statement(Caller(ReturnBodies[i]), env, heap) IN
       /\ r.v = Integer(2)
       /\ Environment_get(env, "t", r.st) = Integer(1)
       /\ \A k \in Len(heap.trace) + 1..Len(r.st.trace) :
            r.st.trace[k] \notin {101, 102, 103}
       /\ \E k \in Len(heap.trace) + 1..Len(r.st.trace) : r.st.trace[k] = 109
  /\ Program = ProgNestedReturn /\ status = "returned" =>
       /\ pc > Len(Program)
       /\ result = Integer(3)
       /\ heap.arrays[1] = <<Integer(2), Integer(9)>>
  /\ Program = ProgWhileReturn /\ status = "returned" =>
       pc > Len(Program) /\ result = Integer(2)
  /\ Program = ProgReturnInOperand /\ status = "returned" =>
       result = Integer(1) /\ heap.arrays[1] = << >>

\* let newAdder = fn(x) { fn(y) { x + y } };
\* let addTwo = newAdder(2); let addTen = newAdder(10);
\* addTwo(3) + addTen(3)
Adders ==
  << Let(0, "newAdder",
         Fn(<<"x">>,
            << Expr(0, Fn(<<"y">>,
                 << Expr(0, Infix(Ident("x"), "+", Ident("y"))) >>)) >>)),
     Let(0, "addTwo", Call(Ident("newAdder"), <<IntLit(2)>>)),
     Let(0, "addTen", Call(Ident("newAdder"), <<IntLit(10)>>)),
     Expr(0, Infix(Call(Ident("addTwo"), <<IntLit(3)>>), "+",
                   Call(Ident("addTen"), <<IntLit(3)>>))) >>

\* C6: a function holds a handle to its defining environment, not a
\* snapshot: a let or an assignment made in the defining scope after the
\* function was created (the let that binds the function included) is seen
\* by every later call, and the scope captured by a function returned from
\* a call stays readable after that call has returned.
C6_ClosureHoldsHandle ==
  /\ \A env \in Envs : \A x \in {"x", "q"} : \A v \in {7, 8} :
       LET made == eval(Let(0, "f", Fn(<< >>, << Expr(0, Ident(x)) >>)),
                        env, heap).st
           bound == eval(Let(0, x, IntLit(v)), env, made).st
           first == eval(Call(Ident("f"), << >>), env, bound)
           assigned == eval(Assign(x, IntLit(v + 1)), env, first.st).st
           second == eval(Call(Ident("f"), << >>), env, assigned)
           third == eval(Call(Ident("f"), << >>), env, second.st)
       IN /\ first.v = Integer(v)
          /\ second.v = Integer(v + 1)
          /\ third.v = Integer(v + 1)
  /\ \A env \in Envs :
       LET made == eval(Let(0, "g", Fn(<< >>, << Expr(0, Ident("g")) >>)),
                        env, heap).st
           called == eval(Call(Ident("g"), << >>), env, made).v
       IN called.t = "FUNCTION" /\ called = Environment_get(env, "g", made)
  /\ \A env \in Envs : eval_block_statement(Adders, env, heap).v = Integer(18)
  /\ Program = ProgClosure /\ status = "returned" => result = Integer(5)
  /\ Program = ProgCapture /\ status = "returned" => result = Integer(3)
  /\ Program = ProgCapture /\ pc > 4 =>
       Environment_get(RootEnv, "b", heap) = Integer(2)
  /\ Program = ProgRecursion /\ status = "returned" => result = Integer(0)

\* `let a = 1; let f = fn() { a }; a = 2; let b = f(); let a = 3; f()` has
\* run: the call made after `a = 2` gave 2 and the one after `let a = 3`
\* gave 3
C6_Witness ==
  /\ Program = ProgCapture
  /\ status = "returned"
  /\ heap.funcs[1].env = RootEnv
  /\ Environment_get(RootEnv, "b", heap) = Integer(2)
  /\ result = Integer(3)

\* let a0 = [1, 2]; let b0 = a0; push(b0, 3); fn(z) { push(z, 4) }(a0);
\* let c0 = null; c0 = b0; pop(c0); len(a0)
ArrayAliases ==
  << Let(0, "a0", Arr(<<IntLit(1), IntLit(2)>>)),
     Let(0, "b0", Ident("a0")),
     Expr(0, Call(Ident("push"), <<Ident("b0"), IntLit(3)>>)),
     Expr(0, Call(Fn(<<"z">>,
                     << Expr(0, Call(Ident("push"), <<Ident("z"), IntLit(4)>>)) >>),
                  <<Ident("a0")>>)),
     Let(0, "c0", NullLit),
     Expr(0, Assign("c0", Ident("b0"))),
     Expr(0, Call(Ident("pop"), <<Ident("c0")>>)),
     Expr(0, Call(Ident("len"), <<Ident("a0")>>)) >>

\* let m0 = {"a": 1}; let n0 = m0; insert(n0, "c", 3);
\* fn(z) { delete(z, "a") }(m0); let k0 = null; k0 = m0; insert(k0, "d", 4);
\* [n0["a"], m0["c"], n0["d"]]
MapAliases ==
  << Let(0, "m0", Hash(<<Pair(StrLit("a"), IntLit(1))>>)),
     Let(0, "n0", Ident("m0")),
     Expr(0, Call(Ident("insert"), <<Ident("n0"), StrLit("c"), IntLit(3)>>)),
     Expr(0, Call(Fn(<<"z">>,
                     << Expr(0, Call(Ident("delete"),
                                     <<Ident("z"), StrLit("a")>>)) >>),
                  <<Ident("m0")>>)),
     Let(0, "k0", NullLit),
     Expr(0, Assign("k0", Ident("m0"))),
     Expr(0, Call(Ident("insert"), <<Ident("k0"), StrLit("d"), IntLit(4)>>)),
     Expr(0, Arr(<<Index(Ident("n0"), StrLit("a")),
                   Index(Ident("m0"), StrLit("c")),
                   Index(Ident("n0"), StrLit("d"))>>)) >>

\* C7: Arrays and HashMaps have reference semantics: after `let b = a`,
\* after an assignment, after passing the container to a function or a
\* builtin and after reading it through an identifier, a push, pop, insert
\* or delete made through one reference is seen through every other one,
\* and none of these copies the container.
C7_ReferenceSemantics ==
  /\ \A env \in Envs :
       LET r == eval_block_statement(ArrayAliases, env, heap)
           a0 == Environment_get(env, "a0", r.st)
       IN /\ Environment_get(env, "len", heap) = NONE => r.v = Integer(3)
          /\ a0 = ArrayObj(Len(heap.arrays) + 1)
          /\ Environment_get(env, "b0", r.st) = a0
          /\ Environment_get(env, "c0", r.st) = a0
          /\ r.st.arrays =
               Append(heap.arrays, <<Integer(1), Integer(2), Integer(3)>>)
  /\ \A env \in Envs :
       LET r == eval_block_statement(MapAliases, env, heap)
           m0 == Environment_get(env, "m0", r.st)
       IN /\ m0 = HashMapObj(Len(heap.maps) + 1)
          /\ Environment_get(env, "n0", r.st) = m0
          /\ Environment_get(env, "k0", r.st) = m0
          /\ Len(r.st.maps) = Len(heap.maps) + 1
          /\ r.st.arrays = Append(heap.arrays, <<NULL, Integer(3), Integer(4)>>)
  /\ \A env \in Envs : \A x \in DOMAIN heap.envs[env].store :
       LET a == heap.envs[env].store[x]
           r == eval_block_statement(
                  << Let(0, "b0", Ident(x)),
                     Expr(0, Call(Ident("push"), <<Ident("b0"), IntLit(9)>>)) >>,
                  env, heap)
       IN Is(a, "ARRAY") =>
            /\ r.st.arrays = [heap.arrays EXCEPT ![a.n] = Append(@, Integer(9))]
            /\ Environment_get(env, x, r.st) = a
  /\ Program = ProgArrayAlias /\ status = "returned" =>
       /\ result = Integer(2)
       /\ heap.arrays = << <<Integer(1), Integer(2)>> >>
  /\ Program = ProgMapAlias /\ status = "returned" =>
       result = Integer(3) /\ Len(heap.maps) = 1

\* `let a = [1, 2]; let b = a; push(b, 3);` has run: the one array, bound
\* to a and to b, holds three elements
C7_Witness ==
  /\ Program = ProgArrayAlias
  /\ pc = 4
  /\ Len(heap.arrays) = 1
  /\ Environment_get(RootEnv, "a", heap) = ArrayObj(1)
  /\ Environment_get(RootEnv, "b", heap) = ArrayObj(1)
  /\ heap.arrays[1] = <<Integer(1), Integer(2), Integer(3)>>

\* Array and HashMap literals without free names
Literals ==
  << Arr(<< >>),
     Arr(<<IntLit(1), StrLit("s")>>),
     Arr(<<Arr(<<IntLit(1)>>), BoolLit(TRUE)>>),
     Hash(<< >>),
     Hash(<<Pair(IntLit(1), IntLit(2))>>),
     Hash(<<Pair(IntLit(1), IntLit(2)), Pair(IntLit(3), IntLit(4))>>) >>

\* let mk = fn() { literal }; let p0 = mk(); let q0 = mk();
Twice(literal) ==
  << Let(0, "mk", Fn(<< >>, << Expr(0, literal) >>)),
     Let(0, "p0", Call(Ident("mk"), << >>)),
     Let(0, "q0", Call(Ident("mk"), << >>)) >>

\* C8: evaluating the same Array or HashMap literal twice yields two
\* containers that are equal under the value equality rule and are not
\* aliased: a mutation of one is not visible in the other.
C8_LiteralTwice ==
  \A env \in Envs : \A i \in 1..Len(Literals) :
    LET r == eval_block_statement(Twice(Literals[i]), env, heap)
        p0 == Environment_get(env, "p0", r.st)
        q0 == Environment_get(env, "q0", r.st)
        pushed == eval(Call(Ident("push"), <<Ident("p0"), IntLit(9)>>),
                       env, r.st).st
        inserted == eval(Call(Ident("insert"),
                              <<Ident("p0"), IntLit(9), IntLit(9)>>),
                         env, r.st).st
    IN /\ p0.t = q0.t
       /\ p0.t \in {"ARRAY", "HASH_MAP"}
       /\ p0.n # q0.n
       /\ ObjEq(p0, q0, r.st)
       /\ p0.t = "ARRAY" =>
            /\ pushed.arrays[p0.n] = Append(r.st.arrays[p0.n], Integer(9))
            /\ pushed.arrays[q0.n] = r.st.arrays[q0.n]
       /\ p0.t = "HASH_MAP" =>
            /\ get_hash_map_value(p0, Integer(9), inserted) = Integer(9)
            /\ inserted.maps[q0.n] = r.st.maps[q0.n]

\* the innermost scope of the chain of `env` that binds `name`, or 0
RECURSIVE BindingScope(_, _, _)
BindingScope(env, name, st) ==
  IF name \in DOMAIN st.envs[env].store THEN env
  ELSE IF st.envs[env].outer # 0
    THEN BindingScope(st.envs[env].outer, name, st)
  ELSE 0

\* right-hand sides: literals, a new container and the name itself
RightHandSides(x) ==
  << IntLit(5), StrLit("s"), NullLit, Arr(<<IntLit(1)>>), Ident(x),
     Infix(Ident(x), "+", IntLit(1)) >>

\* C9: an assignment `x = e` whose right-hand side yields a value v that
\* is no Error overwrites x in the innermost scope of the chain that binds
\* x, changes no other scope and no other name, and yields v; when no scope
\* of the chain binds x it yields `identifier not found: x` and changes no
\* scope.
C9_AssignmentFrame ==
  /\ \A env \in Envs : \A x \in TestNames :
       \A i \in 1..Len(RightHandSides(x)) :
         LET e == RightHandSides(x)[i]
             v == eval(e, env, heap)
             r == eval(Assign(x, e), env, heap)
             scope == BindingScope(env, x, heap)
         IN v.v # NONE /\ ~is_error(v.v) =>
              IF scope # 0
                THEN /\ r.v = v.v
                     /\ r.st = [v.st EXCEPT !.envs[scope].store[x] = v.v]
                     /\ r.st.envs = [heap.envs EXCEPT ![scope].store[x] = v.v]
                ELSE /\ r.v = identifier_not_found(x)
                     /\ r.st = v.st
                     /\ r.st.envs = heap.envs
  /\ Program = ProgScopes /\ pc > 4 =>
       /\ heap.envs[RootEnv].store["x"] = Integer(5)
       /\ heap.envs[2].store["x"] = Integer(14)
  /\ Program = ProgScopes /\ status = "returned" =>
       /\ result = identifier_not_found("y")
       /\ \A env \in Envs : "y" \notin DOMAIN heap.envs[env].store

\* `let x = 12; if (true) { let x = 13; x = x + 1; }; x;
\* if (true) { x = 5 }; x; y = 10` has run: the first assignment wrote the
\* block's x, the second the root's x, the third found no y
C9_Witness ==
  /\ Program = ProgScopes
  /\ status = "returned"
  /\ heap.envs[RootEnv].store["x"] = Integer(5)
  /\ heap.envs[2].store["x"] = Integer(14)
  /\ DOMAIN heap.envs[3].store = {}
  /\ result = identifier_not_found("y")

\* an if block, an else block, a function body and a while body that
\* hold `let x = 7`; the loop runs twice on a counter of its own
LetBlocks(x) ==
  << Expr(0, If(BoolLit(TRUE), << Let(0, x, IntLit(7)) >>)),
     Expr(0, IfElse(BoolLit(FALSE), << Expr(0, NullLit) >>,
                    << Let(0, x, IntLit(7)) >>)),
     Expr(0, Call(Fn(<< >>, << Let(0, x, IntLit(7)) >>), << >>)),
     Expr(0, Call(Fn(<<"i0">>,
                     << While(0, Infix(Ident("i0"), "<", IntLit(2)),
                          << Let(0, x, IntLit(7)),
                             Expr(0, Assign("i0", Infix(Ident("i0"), "+",
                                                        IntLit(1)))) >>) >>),
                  <<IntLit(0)>>)) >>

\* C10: a let writes only the scope it executes in: a let in an if/else
\* block, a while body or a function body creates or changes no binding of
\* an enclosing scope, and the name it bound is not visible after the
\* block: reading it yields what it yielded before the block, which is
\* `identifier not found` when no outer scope binds it.
C10_LetWritesOwnScope ==
  /\ \A env \in Envs : \A x \in TestNames :
       LET r == eval(Let(0, x, IntLit(7)), env, heap).st IN
       r.envs = [heap.envs EXCEPT ![env].store = StoreInsert(@, x, Integer(7))]
  /\ \A env \in Envs : \A x \in TestNames : \A i \in 1..Len(LetBlocks(x)) :
       LET r == eval(LetBlocks(x)[i], env, heap).st
           inner == r.envs[Len(r.envs)]
           after == eval(Ident(x), env, r).v
       IN /\ Len(r.envs) > Len(heap.envs)
          /\ SubSeq(r.envs, 1, Len(heap.envs)) = heap.envs
          /\ inner.store[x] = Integer(7)
          /\ after = eval(Ident(x), env, heap).v
          /\ BindingScope(env, x, heap) = 0 /\ x \notin BuiltinNames =>
               after = identifier_not_found(x)
  /\ Program = ProgScopes /\ pc = 3 =>
       /\ heap.envs[RootEnv].store["x"] = Integer(12)
       /\ heap.envs[2].store["x"] = Integer(14)
  /\ Program = ProgIfScope /\ status = "returned" =>
       /\ result = identifier_not_found("x")
       /\ heap.envs[2].store["x"] = Integer(10)
       /\ DOMAIN heap.envs[RootEnv].store = {}
  /\ Program = ProgLexical /\ pc = 8 =>
       /\ result = Integer(1)
       /\ heap.envs[RootEnv].store["v"] = Integer(1)

\* `let x = 12; if (true) { let x = 13; x = x + 1; };` has run: the block
\* has its own x and the root's x still is 12
C10_Witness ==
  /\ Program = ProgScopes
  /\ pc = 3
  /\ heap.envs[2].outer = RootEnv
  /\ heap.envs[2].store["x"] = Integer(14)
  /\ heap.envs[RootEnv].store["x"] = Integer(12)

\* fn(i0) { while (i0 < bound) { body }; i0 }(0): a loop on a counter of
\* its own
CountingLoop(bound, body) ==
  Call(Fn(<<"i0">>,
          << While(0, Infix(Ident("i0"), "<", IntLit(bound)), body),
             Expr(0, Ident("i0")) >>),
       <<IntLit(0)>>)

NextCount == Expr(0, Assign("i0", Infix(Ident("i0"), "+", IntLit(1))))

\* loop bodies that use y0 in the second iteration, before the let that
\* binds it: a read and an assignment
UsesBeforeLet ==
  << << Expr(0, If(Infix(Ident("i0"), "==", IntLit(1)),
                   << Expr(0, Ident("y0")) >>)),
        Let(0, "y0", IntLit(1)), NextCount >>,
     << Expr(0, If(Infix(Ident("i0"), "==", IntLit(1)),
                   << Expr(0, Assign("y0", IntLit(5))) >>)),
        Let(0, "y0", IntLit(1)), NextCount >> >>

\* C11: every iteration of a while loop evaluates the body in a fresh
\* enclosed scope: a name bound by let in one iteration is not visible in
\* the next one, where a read of it or an assignment to it placed before
\* the let yields `identifier not found`.
C11_WhileFreshScope ==
  /\ \A env \in Envs : \A i \in 1..Len(UsesBeforeLet) :
       Environment_get(env, "y0", heap) = NONE =>
         eval(CountingLoop(2, UsesBeforeLet[i]), env, heap).v
           = identifier_not_found("y0")
  /\ Program = ProgWhileScope /\ pc > 2 =>
       status = "returned" /\ result = identifier_not_found("y")

\* last statements of a loop body that yield no value or an ordinary value
\* (`<<>>` stands for no further statement)
QuietEndings ==
  << << >>,
     << Expr(0, IntLit(5)) >>,
     << Expr(0, NullLit) >>,
     << Expr(0, If(BoolLit(TRUE), << >>)) >>,
     << Let(0, "y0", IntLit(1)) >> >>

\* loops that must end at once, with the value they must yield
EndingLoops ==
  << << While(0, BoolLit(FALSE), << Expr(0, IntLit(1)) >>), NULL >>,
     << While(0, NullLit, << Expr(0, IntLit(1)) >>), NULL >>,
     << While(0, Ident("q0"), << Expr(0, IntLit(1)) >>),
        identifier_not_found("q0") >>,
     << While(0, BoolLit(TRUE), << Expr(0, Ident("q0")), Expr(0, IntLit(1)) >>),
        identifier_not_found("q0") >>,
     << While(0, BoolLit(TRUE), << Return(0, IntLit(7)), Expr(0, IntLit(1)) >>),
        ReturnValue(Integer(7)) >> >>

\* C12: a while statement re-evaluates its condition in the enclosing scope
\* before each iteration and goes on while it is truthy; it ends only on a
\* falsy condition (Null), on an Error of the condition or the body (that
\* Error) or on a ReturnValue of the body (that ReturnValue); a body that is
\* empty or ends in a statement with no value or an ordinary value never
\* ends the loop.
C12_WhileEnds ==
  /\ \A env \in Envs : \A i \in 1..Len(EndingLoops) :
       Environment_get(env, "q0", heap) = NONE =>
         eval(EndingLoops[i][1], env, heap).v = EndingLoops[i][2]
  /\ \A env \in Envs : \A i \in 1..Len(QuietEndings) :
       /\ eval(CountingLoop(3, <<NextCount>> \o QuietEndings[i]), env, heap).v
            = Integer(3)
       /\ eval(While(0, BoolLit(TRUE), QuietEndings[i]), env, heap).st.diverged
  /\ \A env \in Envs :
       \* the condition reads the enclosing i0, not the one the body binds
       eval(CountingLoop(1, << Let(0, "i0", IntLit(5)), Expr(0, NullLit) >>),
            env, heap).st.diverged
  /\ Program = ProgWhileNoValue /\ status = "returned" => result = Integer(3)
  /\ Program = ProgWhile /\ status = "returned" => result = Integer(30)

\* conditions that evaluate to a value other than an Error, each with the
\* branch the truthiness rule selects (TRUE: the consequence)
Conditions ==
  << << BoolLit(TRUE), TRUE >>,
     << BoolLit(FALSE), FALSE >>,
     << NullLit, FALSE >>,
     << IntLit(0), TRUE >>,
     << IntLit(5), TRUE >>,
     << StrLit(""), TRUE >>,
     << Arr(<< >>), TRUE >>,
     << Hash(<< >>), TRUE >>,
     << Fn(<< >>, << >>), TRUE >>,
     << Ident("push"), TRUE >>,
     << Infix(IntLit(1), "<", IntLit(2)), TRUE >>,
     << Infix(IntLit(1), ">", IntLit(2)), FALSE >>,
     << Prefix("!", IntLit(1)), FALSE >>,
     << If(BoolLit(FALSE), << >>), FALSE >> >>

\* fn(s0) { if (c) { s0 = s0 + 1; 11 } else { s0 = s0 + 2; 12 }; s0 }(0)
\* with the statements of the branches numbered 101, 102 and 103, 104
Chooser(c) ==
  Call(Fn(<<"s0">>,
          << Expr(100, IfElse(c,
                << Expr(101, Assign("s0", Infix(Ident("s0"), "+", IntLit(1)))),
                   Expr(102, IntLit(11)) >>,
                << Expr(103, Assign("s0", Infix(Ident("s0"), "+", IntLit(2)))),
                   Expr(104, IntLit(12)) >>)),
             Expr(105, Ident("s0")) >>),
       <<IntLit(0)>>)

TraceFrom(st) == SubSeq(st.trace, Len(heap.trace) + 1, Len(st.trace))

\* C13: an if/else whose condition evaluates to a value other than an Error
\* evaluates exactly one branch, the consequence when the condition is
\* truthy and the alternative when it is falsy; no statement of the other
\* branch is evaluated and none of its effects occur; with no else branch
\* and a falsy condition the value is Null.
C13_OneBranch ==
  /\ \A env \in Envs : \A i \in 1..Len(Conditions) :
       \E c \in {Conditions[i][1]} : \E truthy \in {Conditions[i][2]} :
         /\ \E r \in {eval(Chooser(c), env, heap)} :
              /\ r.v = Integer(IF truthy THEN 1 ELSE 2)
              /\ TraceFrom(r.st) = IF truthy THEN <<100, 101, 102, 105>>
                                             ELSE <<100, 103, 104, 105>>
         /\ \E r \in {eval(IfElse(c, << Expr(101, IntLit(11)) >>,
                                     << Expr(103, IntLit(12)) >>), env, heap)} :
              /\ r.v = Integer(IF truthy THEN 11 ELSE 12)
              /\ TraceFrom(r.st) = IF truthy THEN <<101>> ELSE <<103>>
         /\ \E r \in {eval(If(c, << Expr(101, IntLit(11)) >>), env, heap)} :
              /\ r.v = IF truthy THEN Integer(11) ELSE NULL
              /\ TraceFrom(r.st) = IF truthy THEN <<101>> ELSE << >>
  /\ Program = ProgIfElse /\ pc > 2 =>
       /\ \A i \in 1..Len(heap.trace) : heap.trace[i] \notin {4, 6}
       /\ Environment_get(RootEnv, "s", heap) = Integer(1)

C13_Witness ==
  /\ Program = ProgIfElse /\ status = "returned"
  /\ heap.trace = <<1, 2, 3, 5, 7>>
  /\ result = Integer(1)

ResolvedNames == TestNames \cup BuiltinNames \cup {"s", "len", "nope", "zz"}

\* C14: an identifier is resolved in the innermost scope first, then in
\* each outer scope in turn, then in the builtin table, and only then yields
\* the Error `identifier not found: <name>`; a user binding named like a
\* builtin shadows the builtin, and a name bound nowhere that is no builtin
\* yields exactly that Error.
C14_IdentifierResolution ==
  /\ \A env \in Envs : \A name \in ResolvedNames :
       \E scope \in {BindingScope(env, name, heap)} :
       \E r \in {eval(Ident(name), env, heap)} :
         /\ r.st = heap
         /\ r.v = IF scope # 0 THEN heap.envs[scope].store[name]
                  ELSE IF name \in BuiltinNames THEN BuiltinFunctionObj(name)
                  ELSE identifier_not_found(name)
  /\ Program = ProgShadow =>
       /\ pc = 5 => result = Integer(14)
       /\ pc = 6 => result = BuiltinFunctionObj("push")
       /\ status = "returned" => result = identifier_not_found("nope")

C14_Witness ==
  /\ Program = ProgShadow /\ status = "returned"
  /\ Environment_get(RootEnv, "len", heap) = Integer(5)
  /\ Environment_get(RootEnv, "a", heap) = Integer(2)
  /\ result = identifier_not_found("nope")

\* fn() { <id>: e }(): an operand that leaves its id in the trace
Traced(id, e) == Call(Fn(<< >>, << Expr(id, e) >>), << >>)

\* the callee: an operand (200) that yields fn(p0, p1) { 210: p0 + p1 }
TracedCallee ==
  Traced(200, Fn(<<"p0", "p1">>,
                 << Expr(210, Infix(Ident("p0"), "+", Ident("p1"))) >>))

\* argument lists, each with the trace and the value of the call
\* (201, 202: the values 1 and 2; 203, 204: Errors)
ArgumentLists ==
  LET A1 == Traced(201, IntLit(1))
      A2 == Traced(202, IntLit(2))
      E1 == Traced(203, Ident("nope0"))
      E2 == Traced(204, Prefix("-", BoolLit(TRUE)))
  IN << << <<A1, A2>>, <<200, 201, 202, 210>>, Integer(3) >>,
        << <<A2, A1>>, <<200, 202, 201, 210>>, Integer(3) >>,
        << <<E1, A2>>, <<200, 203>>, identifier_not_found("nope0") >>,
        << <<A1, E1>>, <<200, 201, 203>>, identifier_not_found("nope0") >>,
        << <<E2, E1>>, <<200, 204>>, unknown_prefix_operator("-", TRUE_OBJ) >>,
        << <<A1, E1, A2>>, <<200, 201, 203>>, identifier_not_found("nope0") >>,
        << <<E1>>, <<200, 203>>, identifier_not_found("nope0") >>,
        << << >>, <<200>>, incorrect_arg_num(2, 0) >>,
        << <<A1>>, <<200, 201>>, incorrect_arg_num(2, 1) >>,
        << <<A1, A2, A1>>, <<200, 201, 202, 201>>, incorrect_arg_num(2, 3) >> >>

\* the same for the builtins is_null (one parameter) and print (variadic)
BuiltinArgumentLists ==
  LET A1 == Traced(201, IntLit(1))
      A2 == Traced(202, IntLit(2))
      E1 == Traced(203, Ident("nope0"))
  IN << << "is_null", <<A1>>, <<201>>, FALSE_OBJ, "" >>,
        << "is_null", <<E1>>, <<203>>, identifier_not_found("nope0"), "" >>,
        << "is_null", << >>, << >>, incorrect_arg_num(1, 0), "" >>,
        << "is_null", <<A1, A2>>, <<201, 202>>, incorrect_arg_num(1, 2), "" >>,
        << "is_null", <<A1, E1>>, <<201, 203>>,
           identifier_not_found("nope0"), "" >>,
        << "print", <<A1, A2>>, <<201, 202>>, NULL, "1 2" >>,
        << "print", <<A1, E1, A2>>, <<201, 203>>,
           identifier_not_found("nope0"), "" >>,
        << "print", <<E1, A2>>, <<203>>, identifier_not_found("nope0"), "" >> >>

\* C15: a call evaluates the callee first and then the arguments from left
\* to right; the body or the builtin handler runs only when every argument
\* yielded a value that is no Error and the number of arguments is the
\* number of parameters; at the first argument that yields an Error no later
\* argument is evaluated and the call yields that Error; on a count mismatch
\* the call yields `incorrect number of arguments` and no statement of the
\* body is executed.
C15_CallOrder ==
  /\ \A env \in Envs : \A i \in 1..Len(ArgumentLists) :
       \E r \in {eval(Call(TracedCallee, ArgumentLists[i][1]), env, heap)} :
         /\ TraceFrom(r.st) = ArgumentLists[i][2]
         /\ r.v = ArgumentLists[i][3]
  /\ \A env \in Envs : \A i \in 1..Len(BuiltinArgumentLists) :
       \E b \in {BuiltinArgumentLists[i]} :
       \E r \in {eval(Call(Ident(b[1]), b[2]), env, heap)} :
         /\ TraceFrom(r.st) = b[3]
         /\ r.v = b[4]
         /\ r.st.out = heap.out \o b[5]
  /\ \A env \in Envs :
       \* an Error as the callee: no argument is evaluated
       \E r \in {eval(Call(Traced(203, Ident("nope0")),
                           <<Traced(201, IntLit(1))>>), env, heap)} :
         r.v = identifier_not_found("nope0") /\ TraceFrom(r.st) = <<203>>
  /\ Program = ProgCallOrder =>
       /\ pc = 5 => /\ result = Integer(3)
                    /\ heap.trace = <<1, 2, 5, 8, 3, 4, 3, 4, 6, 7>>
       /\ status = "returned" =>
            /\ result = identifier_not_found("nope")
            /\ heap.trace = <<1, 2, 5, 8, 3, 4, 3, 4, 6, 7, 9, 3, 4>>
            /\ heap.arrays[1] = <<Integer(1), Integer(2), Integer(9), Integer(3)>>

C15_Witness ==
  /\ Program = ProgCallOrder /\ status = "returned"
  /\ heap.arrays[1] = <<Integer(1), Integer(2), Integer(9), Integer(3)>>
  /\ result = identifier_not_found("nope")

\* the largest number of arguments of the print calls checked
MaxPrintArgs == 12

\* values whose inspect forms differ in kind
Printed(i) ==
  CASE i % 3 = 0 -> <<IntLit(i), ToString(i)>>
    [] i % 3 = 1 -> <<BoolLit(TRUE), "true">>
    [] OTHER -> <<IntLit(i * 10), ToString(i * 10)>>

\* C16: print(a_0, ..., a_{n-1}) writes the inspect forms of its arguments
\* in source order, separated by single spaces and with no trailing
\* newline, for every n >= 1 (n > 10 included); with no argument it writes
\* a single newline.
C16_PrintOrder ==
  /\ \A env \in Envs : \A n \in 0..MaxPrintArgs :
       \E r \in {eval(Call(Ident("print"), [i \in 1..n |-> Printed(i - 1)[1]]),
                      env, heap)} :
         /\ r.v = NULL
         /\ r.st.out = heap.out \o
              (IF n = 0 THEN "\n"
               ELSE Join([i \in 1..n |-> Printed(i - 1)[2]], " "))
  /\ Program = ProgPrintMany /\ pc = 2 =>
       heap.out = "0 1 2 3 4 5 6 7 8 9 10"
  /\ Program = ProgPrint /\ pc = 4 =>
       heap.out = "1 a true\n[1, 2] { 1:2 }"

Arrays == 1..Len(heap.arrays)

\* a call of a builtin on argument values
CallBuiltin(name, args, st) ==
  eval_builtin_function_calls(BuiltinFunctionObj(name), args, st)

\* the arrays and hash maps of a store
Containers(st) == <<st.arrays, st.maps>>

PushedValues ==
  {Integer(7), StringObj("s"), NULL, TRUE_OBJ} \cup {ArrayObj(a) : a \in Arrays}

NonArrays == {Integer(5), StringObj("ab"), NULL, FALSE_OBJ, BuiltinFunctionObj("len")}

\* C17: push(a, v) on an Array appends v as the new last element in place,
\* leaves the earlier elements unchanged and returns Null; pop(a) removes
\* and returns the last element, or returns Null and leaves the array
\* unchanged when it is empty; push(a, v) followed by pop(a) returns v and
\* restores the contents of a; a first argument that is no Array yields an
\* Error and mutates nothing.
C17_PushPop ==
  /\ \A a \in Arrays : \A v \in PushedValues :
       \E pushed \in {CallBuiltin("push", <<ArrayObj(a), v>>, heap)} :
         /\ pushed.v = NULL
         /\ Containers(pushed.st)
              = Containers([heap EXCEPT !.arrays[a] = Append(@, v)])
         /\ \E popped \in {CallBuiltin("pop", <<ArrayObj(a)>>, pushed.st)} :
              popped.v = v /\ Containers(popped.st) = Containers(heap)
  /\ \A a \in Arrays :
       \E popped \in {CallBuiltin("pop", <<ArrayObj(a)>>, heap)} :
         IF heap.arrays[a] = << >>
           THEN popped.v = NULL /\ Containers(popped.st) = Containers(heap)
           ELSE /\ popped.v = heap.arrays[a][Len(heap.arrays[a])]
                /\ Containers(popped.st)
                     = Containers([heap EXCEPT !.arrays[a] =
                                     SubSeq(@, 1, Len(@) - 1)])
  /\ \A n \in NonArrays \cup {HashMapObj(m) : m \in 1..Len(heap.maps)} :
       /\ \E r \in {CallBuiltin("push", <<n, Integer(1)>>, heap)} :
            /\ r.v = unexpected_argument_type("an ARRAY", n)
            /\ is_error(r.v) /\ Containers(r.st) = Containers(heap)
       /\ \E r \in {CallBuiltin("pop", <<n>>, heap)} :
            /\ r.v = unexpected_argument_type("an ARRAY", n)
            /\ is_error(r.v) /\ Containers(r.st) = Containers(heap)
  /\ Program = ProgPushPop =>
       /\ pc = 2 => heap.arrays[1] = <<Integer(1)>>
       /\ pc = 3 => heap.arrays[1] = <<Integer(1), Integer(2)>> /\ result = NULL
       /\ pc = 4 => heap.arrays[1] = <<Integer(1)>> /\ result = Integer(2)
       /\ pc = 5 => heap.arrays[1] = << >> /\ result = Integer(1)
       /\ pc = 6 => heap.arrays[1] = << >> /\ result = NULL
       /\ pc = 7 => /\ heap.arrays[1] = << >> /\ status = "returned"
                    /\ result = unexpected_argument_type("an ARRAY", Integer(5))

C17_Witness ==
  /\ Program = ProgPushPop /\ pc = 4
  /\ heap.arrays[1] = <<Integer(1)>>
  /\ Environment_get(RootEnv, "p", heap) = Integer(2)

\* the integer i as the parser yields it: a literal, or `-` applied to one
IntExpr(i) == IF i < 0 THEN Prefix("-", IntLit(0 - i)) ELSE IntLit(i)

\* the names that `env` itself binds to an Array
ArrayNames(env) ==
  {name \in DOMAIN heap.envs[env].store :
     Is(heap.envs[env].store[name], "ARRAY")}

\* indexes that are no Integer
NonIntegerIndexes ==
  << StrLit("0"), BoolLit(TRUE), NullLit, Arr(<<IntLit(0)>>),
     Ident("push"), Ident("nope0") >>

\* C18: for an Array a of length n and an Integer i, a[i] yields element i
\* when 0 <= i < n, the Error `list index out of range` when i >= n and an
\* Error when i < 0; an index that is no Integer yields an Error; indexing
\* never changes the array.
C18_ArrayIndex ==
  /\ \A env \in Envs : \A name \in ArrayNames(env) :
       \E elements \in {heap.arrays[heap.envs[env].store[name].n]} :
         /\ \A i \in -2..(Len(elements) + 2) :
              \E r \in {eval(Index(Ident(name), IntExpr(i)), env, heap)} :
                /\ r.st = heap
                /\ i >= 0 /\ i < Len(elements) => r.v = elements[i + 1]
                /\ i >= Len(elements) =>
                     r.v = new_error("list index out of range")
                /\ i < 0 => is_error(r.v)
         /\ \A j \in 1..Len(NonIntegerIndexes) :
              \E r \in {eval(Index(Ident(name), NonIntegerIndexes[j]),
                             env, heap)} :
                /\ is_error(r.v)
                /\ SubSeq(r.st.arrays, 1, Len(heap.arrays)) = heap.arrays
  /\ \A env \in Envs : \A i \in -1..4 :
       \E r \in {eval(Index(Arr(<<IntLit(10), StrLit("b"), NullLit>>),
                            IntExpr(i)), env, heap)} :
         /\ r.v = CASE i = 0 -> Integer(10)
                    [] i = 1 -> StringObj("b")
                    [] i = 2 -> NULL
                    [] i > 2 -> new_error("list index out of range")
                    [] OTHER -> incorrect_index_argument
         /\ r.st.arrays = Append(heap.arrays, <<Integer(10), StringObj("b"), NULL>>)
  /\ Program = ProgIndex =>
       /\ pc = 5 => result = Integer(3)
       /\ status = "returned" =>
            /\ result = new_error("list index out of range")
            /\ heap.arrays[1] = <<Integer(1), Integer(2), Integer(3)>>

C18_Witness ==
  /\ Program = ProgIndex /\ status = "returned" /\ pc = 8
  /\ result = new_error("list index out of range")
  /\ "a" \in ArrayNames(RootEnv)

\* C19: for an Array a of length n, a[lo:hi] with 0 <= lo <= hi <= n yields
\* a new Array holding the elements at the positions lo..hi-1 in order; any
\* other bounds (lo > hi, hi > n, a negative bound) yield an Error; the
\* result is not aliased with a: a push or pop on the one never changes the
\* other.
C19_ArrayRange ==
  /\ \A env \in Envs : \A name \in ArrayNames(env) :
       \E a \in {heap.envs[env].store[name].n} :
       \E n \in {Len(heap.arrays[a])} :
       \A lo \in -1..(n + 1) : \A hi \in -1..(n + 1) :
         \E r \in {eval(Range(Ident(name), IntExpr(lo), IntExpr(hi)),
                        env, heap)} :
           IF 0 <= lo /\ lo <= hi /\ hi <= n
             THEN \E new \in {Len(heap.arrays) + 1} :
                  \E slice \in {[i \in 1..(hi - lo) |-> heap.arrays[a][lo + i]]} :
                    /\ r.v = ArrayObj(new) /\ new # a
                    /\ r.st = [heap EXCEPT !.arrays = Append(@, slice)]
                    /\ CallBuiltin("push", <<r.v, Integer(7)>>, r.st).st.arrays
                         = Append(heap.arrays, Append(slice, Integer(7)))
                    /\ CallBuiltin("pop", <<r.v>>, r.st).st.arrays[a]
                         = heap.arrays[a]
                    /\ CallBuiltin("push", <<ArrayObj(a), Integer(7)>>,
                                   r.st).st.arrays[new] = slice
                    /\ CallBuiltin("pop", <<ArrayObj(a)>>, r.st).st.arrays[new]
                         = slice
             ELSE is_error(r.v) /\ r.st = heap
  /\ \A env \in Envs :
       /\ eval(Index(Range(Arr(<<IntLit(10), IntLit(20), IntLit(30)>>),
                           IntLit(1), IntLit(3)), IntLit(0)), env, heap).v
            = Integer(20)
       /\ \E r \in {eval(Range(Arr(<<IntLit(10), IntLit(20), IntLit(30)>>),
                               IntLit(2), IntLit(2)), env, heap)} :
            r.st.arrays[r.v.n] = << >>
  /\ Program = ProgIndex /\ pc >= 4 =>
       /\ heap.arrays[1] = <<Integer(1), Integer(2), Integer(3)>>
       /\ heap.arrays[2] = <<Integer(2), Integer(3), Integer(4)>>

C19_Witness ==
  /\ Program = ProgIndex /\ pc = 4
  /\ Environment_get(RootEnv, "s", heap) = ArrayObj(2)
  /\ heap.arrays = << <<Integer(1), Integer(2), Integer(3)>>,
                      <<Integer(2), Integer(3), Integer(4)>> >>

Operators == {"+", "-", "*", "/", "<", ">", "==", "!="}

\* operands that yield a value that is no Error, with the name of its type
Operands ==
  << << IntLit(5), "INTEGER" >>,
     << StrLit("s"), "STRING" >>,
     << BoolLit(TRUE), "BOOLEAN" >>,
     << BoolLit(FALSE), "BOOLEAN" >>,
     << NullLit, "NULL" >>,
     << Arr(<< >>), "ARRAY" >>,
     << Hash(<< >>), "HASH_MAP" >>,
     << Fn(<< >>, << >>), "FUNCTION" >>,
     << Ident("push"), "FUNCTION" >> >>

\* C20: an infix operator applied to two operands that are no Error yields
\* the Error `type mismatch: <L> <op> <R>` when their types differ, whatever
\* the operator; two Booleans support `==` and `!=` only and yield the Error
\* `unknown operator: BOOLEAN <op> BOOLEAN` otherwise; two operands of the
\* same type Null, Array, HashMap or Function yield an `unknown operator`
\* Error for every operator, `==` and `!=` included.
C20_InfixErrors ==
  /\ \A env \in Envs : \A i, j \in 1..Len(Operands) : \A op \in Operators :
       \E L \in {Operands[i][2]} : \E Rt \in {Operands[j][2]} :
       \E v \in {eval(Infix(Operands[i][1], op, Operands[j][1]), env, heap).v} :
         IF L # Rt
           THEN v = new_error("type mismatch: " \o L \o " " \o op \o " " \o Rt)
         ELSE IF L = "BOOLEAN"
           THEN v = CASE op = "==" -> Boolean(Operands[i][1] = Operands[j][1])
                      [] op = "!=" -> Boolean(Operands[i][1] # Operands[j][1])
                      [] OTHER -> new_error("unknown operator: BOOLEAN "
                                            \o op \o " BOOLEAN")
         ELSE L \in {"NULL", "ARRAY", "HASH_MAP", "FUNCTION"} =>
                v = new_error("unknown operator: " \o L \o " " \o op \o " " \o L)
  /\ Program = ProgOperators =>
       /\ pc = 9 => result = FALSE_OBJ
       /\ status = "returned" =>
            result = new_error("type mismatch: INTEGER + BOOLEAN")

C20_Witness ==
  /\ Program = ProgOperators /\ status = "returned" /\ pc = 11
  /\ result = new_error("type mismatch: INTEGER + BOOLEAN")

\* C23: a hash literal evaluates its keys and values pair by pair in source
\* order and inserts them in that order: the effects of the pairs occur in
\* source order, and of two pairs whose keys evaluate to equal values the
\* HashMap holds the value of the later one.
C23_HashLiteralOrder ==
  /\ \A env \in Envs :
       \E r \in {eval(Hash(<< Pair(Traced(201, IntLit(1)), Traced(202, IntLit(10))),
                              Pair(Traced(203, StrLit("k")), Traced(204, IntLit(20))) >>),
                      env, heap)} :
         TraceFrom(r.st) = <<201, 202, 203, 204>>
  /\ \A env \in Envs :
       eval(Index(Hash(<< Pair(Infix(IntLit(1), "+", IntLit(1)), StrLit("a")),
                          Pair(IntLit(2), StrLit("b")) >>), IntLit(2)),
            env, heap).v = StringObj("b")
  /\ Program = ProgHashOrder /\ pc = 3 => result = StringObj("b")

\* the bindings of all scopes
Bindings(st) == [e \in 1..Len(st.envs) |-> st.envs[e].store]

\* C25: when the value of `let x = e` or the right-hand side of `x = e`
\* evaluates to an Error, no binding is created or changed in any scope, and
\* no environment ever binds a name to an Error.
C25_NoErrorBinding ==
  /\ \A env \in Envs : \A i \in 1..Len(ErrorSources) :
       is_error(eval(ErrorSources[i], env, heap).v) =>
         /\ Bindings(eval(Let(0, "x0", ErrorSources[i]), env, heap).st)
              = Bindings(heap)
         /\ \A x \in TestNames :
              Bindings(eval(Assign(x, ErrorSources[i]), env, heap).st)
                = Bindings(heap)
  /\ \A env \in Envs : \A x \in DOMAIN heap.envs[env].store :
       ~is_error(heap.envs[env].store[x])

\* let g0 = fn() { w0 }; let h0 = fn(w0) { g0() };
\* let h1 = fn() { let w0 = 2; g0() }; <last>
DynamicProbe(last) ==
  << Let(0, "g0", Fn(<< >>, << Expr(0, Ident("w0")) >>)),
     Let(0, "h0", Fn(<<"w0">>, << Expr(0, Call(Ident("g0"), << >>)) >>)),
     Let(0, "h1", Fn(<< >>, << Let(0, "w0", IntLit(2)),
                               Expr(0, Call(Ident("g0"), << >>)) >>)),
     Expr(0, last) >>

\* C26: calls are scoped lexically: the body of a user function resolves
\* its free identifiers through a fresh scope enclosed by the environment
\* captured when the function was created, never through the scope of the
\* caller, and binding the parameters creates or changes no binding in the
\* captured scope or in the scope of the caller.
C26_LexicalScope ==
  /\ \A env \in Envs :
       /\ eval_block_statement(DynamicProbe(Call(Ident("h0"), <<IntLit(3)>>)),
                               env, heap).v = identifier_not_found("w0")
       /\ eval_block_statement(DynamicProbe(Call(Ident("h1"), << >>)),
                               env, heap).v = identifier_not_found("w0")
  /\ \A env \in Envs :
       \E made \in {eval(Fn(<<"x", "a">>, << Expr(0, Ident("x")) >>), env, heap)} :
       \E called \in {eval_user_defined_function_call(
                        made.v, <<Integer(7), Integer(8)>>, made.st)} :
         /\ called.v = Integer(7)
         /\ called.st.envs =
              Append(heap.envs,
                     [outer |-> env,
                      store |-> [n \in {"x", "a"} |->
                                   IF n = "x" THEN Integer(7) ELSE Integer(8)]])
  /\ \A env \in Envs :
       \* fn(x) { fn(x) { x }(9); x }(5): the caller keeps its own x
       eval(Call(Fn(<<"x">>,
                    << Expr(0, Call(Fn(<<"x">>, << Expr(0, Ident("x")) >>),
                                    <<IntLit(9)>>)),
                       Expr(0, Ident("x")) >>), <<IntLit(5)>>), env, heap).v
         = Integer(5)
  /\ Program = ProgLexical =>
       /\ pc = 5 => result = Integer(1)
       /\ pc >= 5 => Environment_get(RootEnv, "v", heap) = Integer(1)
       /\ status = "returned" => result = identifier_not_found("w")

C26_Witness ==
  /\ Program = ProgLexical /\ pc = 5 /\ result = Integer(1)
  /\ \E e \in Envs : /\ "w" \in DOMAIN heap.envs[e].store
                     /\ heap.envs[e].store["v"] = Integer(2)

\* calls of a value that is neither a Function nor a BuiltinFunction
NonFunctionCalls ==
  << Call(IntLit(5), <<IntLit(1)>>),
     Call(StrLit("s"), << >>),
     Call(NullLit, <<IntLit(1), IntLit(2)>>),
     Call(BoolLit(TRUE), << >>),
     Call(Arr(<<IntLit(1)>>), <<IntLit(0)>>),
     Call(Call(Fn(<< >>, << Expr(0, IntLit(5)) >>), << >>), << >>) >>

\* C30: a call of a value that is neither a Function nor a BuiltinFunction
\* yields no value, not an Error: an enclosing let creates no binding, an
\* enclosing infix or return yields no value either, and eval_program goes
\* on with the next top-level statement.
C30_CallOfNonFunction ==
  /\ \A env \in Envs : \A i \in 1..Len(NonFunctionCalls) :
       \E c \in {NonFunctionCalls[i]} :
         /\ eval(c, env, heap).v = NONE
         /\ \E r \in {eval(Let(0, "x0", c), env, heap)} :
              r.v = NONE /\ Bindings(r.st) = Bindings(eval(c, env, heap).st)
         /\ eval(Infix(c, "+", IntLit(1)), env, heap).v = NONE
         /\ eval(Infix(IntLit(1), "+", c), env, heap).v = NONE
         /\ eval(Return(0, c), env, heap).v = NONE
         /\ eval_block_statement(<< Expr(0, c), Expr(0, IntLit(4)) >>,
                                 env, heap).v = Integer(4)
  /\ Program = ProgCallNonFunction =>
       /\ pc = 2 => result = NONE /\ status = "running"
       /\ pc = 3 => /\ result = NONE /\ status = "running"
                    /\ Environment_get(RootEnv, "x", heap) = NONE
       /\ pc = 4 => /\ result = identifier_not_found("x")
                    /\ heap.trace = <<1, 2, 3>>

C30_Witness ==
  /\ Program = ProgCallNonFunction /\ pc = 4 /\ status = "returned"
  /\ heap.trace = <<1, 2, 3>>
  /\ result = identifier_not_found("x")

(***************************************************************************)
(* C29: the lexer reaches the end of every input.                          *)
(***************************************************************************)
LastTok == toks[Len(toks)]

\* the lexer stands on the opening quote of a string literal that has no
\* closing quote
Unterminated(l) ==
  /\ l.read_position > 0
  /\ l.ch = "\""
  /\ ~OneOf("\"", Slice(l, l.position + 1, Len(l.input)))

\* the call sequence from a lexer state: the next token, then the one after
TokenAfter(r) == Lexer_next_token(r.l)

UnterminatedIsString(l) ==
  \E r \in {Lexer_next_token(l)} :
    /\ r.tok = new_token("String", Slice(l, l.position + 1, Len(l.input)))
    /\ ~r.l.panic
    /\ TokenAfter(r).tok = eof_token
    /\ ~TokenAfter(r).l.panic

\* C29: repeated calls of next_token eventually return Eof; once an Eof was
\* returned or the position is at the end of the input, every later call
\* returns Eof; a string literal without a closing quote is returned as a
\* String token that holds the characters up to the end of the input, with
\* no Illegal token and no panic, and the call after it returns Eof.
C29_EofForever ==
  /\ <>(toks # << >> /\ LastTok = eof_token)
  /\ [][ (toks' # toks /\
          ((toks # << >> /\ LastTok.token_type = "Eof") \/
           (lexer.read_position > 0 /\ lexer.position >= Len(lexer.input))))
         => toks'[Len(toks')] = eof_token ]_vars
  /\ [](~lexer.panic /\ (Unterminated(lexer) => UnterminatedIsString(lexer)))
  /\ [](\A i \in 1..Len(toks) :
          toks[i].token_type = "Illegal" => OneOf(toks[i].literal, "?@"))

\* the unterminated literal of `let s = "abc` was returned and two Eof
\* tokens after it
C29_Witness ==
  /\ lexer.input = "let s = \"abc"
  /\ Len(toks) = 6
  /\ toks[4] = new_token("String", "abc")
  /\ toks[5] = eof_token
  /\ toks[6] = eof_token

(***************************************************************************)
(* C21: the grouping of operators by the parser.                           *)
(***************************************************************************)
\* what parse_program has made of the text, printed
Parsed(text) == parsing = "parsed" /\ parser.l.input = text

PrintedProgram == Program_to_string(program)

\* the rung of a binary operator on the ladder Equals < LessGreater < Sum <
\* Product
Rung(op) ==
  CASE op \in {"==", "!="} -> 1
    [] op \in {"<", ">"} -> 2
    [] op \in {"+", "-"} -> 3
    [] op \in {"*", "/"} -> 4

Grouped(l, op, r) == "(" \o l \o " " \o op \o " " \o r \o ")"

\* C21: operators are grouped by the ladder Equals < LessGreater < Sum <
\* Product < Prefix < Call < Index.  Of two binary operators in a row the
\* first takes the operand between them unless the second stands higher
\* (equal rungs group to the left); a prefix operator takes its operand
\* before any binary operator does; a call and an index take theirs before
\* any binary or prefix operator does; and the four examples print as
\* `((a + b) + c)`, `(((a + (b * c)) + (d / e)) - f)`, `((-a) * b)` and
\* `((a * ([1, 2, 3, 4][(b * c)])) * d)`.
C21_PrecedenceLadder ==
  /\ Precedence.Lowest < Precedence.Equals
  /\ Precedence.Equals < Precedence.LessGreater
  /\ Precedence.LessGreater < Precedence.Sum
  /\ Precedence.Sum < Precedence.Product
  /\ Precedence.Product < Precedence.Prefix
  /\ Precedence.Prefix < Precedence.Call
  /\ Precedence.Call < Precedence.Index
  /\ \A i, j \in 1..Len(BinaryOps) :
       Parsed(TwoOperators(BinaryOps[i], BinaryOps[j])) =>
         /\ parser.errors = << >>
         /\ PrintedProgram =
              (IF Rung(BinaryOps[i]) >= Rung(BinaryOps[j])
                 THEN Grouped(Grouped("a", BinaryOps[i], "b"),
                              BinaryOps[j], "c")
               ELSE Grouped("a", BinaryOps[i],
                            Grouped("b", BinaryOps[j], "c"))) \o "\n"
  /\ \A i \in 1..Len(PrefixOps), j \in 1..Len(BinaryOps) :
       Parsed(PrefixThenBinary(PrefixOps[i], BinaryOps[j])) =>
         PrintedProgram = Grouped("(" \o PrefixOps[i] \o "a)", BinaryOps[j], "b")
                   \o "\n"
  /\ \A i \in 1..Len(BinaryOps) :
       /\ Parsed(CallAfter(BinaryOps[i])) =>
            PrintedProgram = Grouped("a", BinaryOps[i], "b(c)") \o "\n"
       /\ Parsed(IndexAfter(BinaryOps[i])) =>
            PrintedProgram = Grouped("a", BinaryOps[i], "(b[c])") \o "\n"
  /\ \A i \in 1..Len(PrefixOps) :
       /\ Parsed(PrefixOps[i] \o "a(b)") =>
            PrintedProgram = "(" \o PrefixOps[i] \o "a(b))\n"
       /\ Parsed(PrefixOps[i] \o "a[b]") =>
            PrintedProgram = "(" \o PrefixOps[i] \o "(a[b]))\n"
  /\ Parsed("a + b + c") => PrintedProgram = "((a + b) + c)\n"
  /\ Parsed("a + b * c + d / e - f") =>
       PrintedProgram = "(((a + (b * c)) + (d / e)) - f)\n"
  /\ Parsed("-a * b") => PrintedProgram = "((-a) * b)\n"
  /\ Parsed("a * [1, 2, 3, 4][b * c] * d") =>
       PrintedProgram = "((a * ([1, 2, 3, 4][(b * c)])) * d)\n"

\* `a + b * c + d / e - f` was parsed into one statement without an error
C21_Witness ==
  /\ Parsed("a + b * c + d / e - f")
  /\ Len(program) = 1
  /\ parser.errors = << >>
  /\ PrintedProgram = "(((a + (b * c)) + (d / e)) - f)\n"

(***************************************************************************)
(* C22: printing a program and parsing the text again.                     *)
(***************************************************************************)
\* the program printed, parsed again and printed again
Reprinted(text) == Program_to_string(parse_program(text).e)

\* C22: a program that was parsed without an error prints as a text that,
\* parsed and printed again, is the same text.
C22_PrintParsePrint ==
  (parsing = "parsed" /\ parser.errors = << >>) =>
    Reprinted(PrintedProgram) = PrintedProgram

(***************************************************************************)
(* C24: the parameters of a function literal.                              *)
(***************************************************************************)
\* every FunctionLiteral in the node has pairwise distinct parameter names
RECURSIVE ParametersDistinct(_)
ParametersDistinct(node) ==
  LET All(nodes) == \A i \in 1..Len(nodes) : ParametersDistinct(nodes[i])
  IN CASE node.k = "FunctionLiteral" ->
            /\ \A i, j \in 1..Len(node.parameters) :
                 i # j => node.parameters[i] # node.parameters[j]
            /\ All(node.body)
       [] node.k = "PrefixExpression" -> ParametersDistinct(node.right)
       [] node.k = "InfixExpression" ->
            ParametersDistinct(node.left) /\ ParametersDistinct(node.right)
       [] node.k = "Assignment" -> ParametersDistinct(node.value)
       [] node.k = "IfExpression" ->
            /\ ParametersDistinct(node.condition)
            /\ All(node.consequence)
            /\ All(node.alternative)
       [] node.k = "CallExpression" ->
            ParametersDistinct(node.function) /\ All(node.arguments)
       [] node.k = "ArrayLiteral" -> All(node.elements)
       [] node.k = "IndexExpression" ->
            ParametersDistinct(node.left) /\ ParametersDistinct(node.index)
       [] node.k = "RangeExpression" ->
            /\ ParametersDistinct(node.left)
            /\ ParametersDistinct(node.left_index)
            /\ ParametersDistinct(node.right_index)
       [] node.k = "HashLiteral" ->
            \A i \in 1..Len(node.pairs) :
              /\ ParametersDistinct(node.pairs[i].key)
              /\ ParametersDistinct(node.pairs[i].value)
       [] node.k = "Let" -> ParametersDistinct(node.value)
       [] node.k = "Return" -> ParametersDistinct(node.return_value)
       [] node.k = "Expression" -> ParametersDistinct(node.expression)
       [] node.k = "While" ->
            ParametersDistinct(node.condition) /\ All(node.body)
       [] OTHER -> TRUE

\* C24: every FunctionLiteral of a parsed program has pairwise distinct
\* parameter names; `fn(x, x) { x }` does not yield the parameters x, x.
C24_DistinctParameters ==
  \A i \in 1..Len(program) : ParametersDistinct(program[i])

(***************************************************************************)
(* C27: the errors of the parser.                                          *)
(***************************************************************************)
TokenTypes ==
  {"Illegal", "Eof", "Ident", "Int", "String", "Assign", "Plus", "Minus",
   "Bang", "Asterisk", "Slash", "Lt", "Gt", "Eq", "NotEq", "Comma",
   "Semicolon", "Lparen", "Rparen", "Lbrace", "Rbrace", "Lbracket",
   "Rbracket", "Colon", "Function", "Let", "If", "Else", "While", "Return",
   "True", "False", "Null"}

\* a is the beginning of b
IsPrefix(a, b) == Len(a) <= Len(b) /\ SubSeq(b, 1, Len(a)) = a

\* expect_peek from the parser p, for the token type tt
ExpectPeekLaw(p, tt) ==
  \E r \in {expect_peek(p, tt)} :
    IF p.peek_token.token_type = tt
      THEN /\ r.ok
           /\ r.p.errors = p.errors
           /\ r.p.current_token = p.peek_token
           /\ \E t \in {Lexer_next_token(p.l)} :
                r.p.peek_token = t.tok /\ r.p.l = t.l
    ELSE /\ ~r.ok
         /\ Len(r.p.errors) = Len(p.errors) + 1
         /\ IsPrefix(p.errors, r.p.errors)
         /\ r.p.current_token = p.current_token
         /\ r.p.peek_token = p.peek_token
         /\ r.p.l = p.l

\* the tokens of the input other than Eof
RECURSIVE TokensFrom(_)
TokensFrom(l) ==
  LET t == Lexer_next_token(l)
  IN IF t.tok.token_type = "Eof" THEN 0 ELSE 1 + TokensFrom(t.l)

TokenCount(text) == TokensFrom(Lexer_new(text))

\* C27: expect_peek with the expected token at peek moves the window by one
\* token and records nothing, otherwise it appends one message and leaves
\* current_token, peek_token and the lexer as they were; an iteration of
\* parse_program keeps the errors it found and adds to them; and the parser
\* goes on after an ill-formed construct: at the end every token of the
\* input has been taken, and `let = 5; let y = 3; y` yields two errors, an
\* expression statement without an expression for `=`, and the statements
\* 5, let y = 3 and y.
C27_ErrorsCollected ==
  /\ [](\A tt \in TokenTypes : ExpectPeekLaw(parser, tt))
  /\ [][IsPrefix(parser.errors, parser'.errors)]_vars
  /\ [](parsing = "parsed" =>
          /\ parser.current_token.token_type = "Eof"
          /\ parser.taken = TokenCount(parser.l.input))
  /\ [](Parsed("let = 5; let y = 3; y") =>
          /\ Len(parser.errors) = 2
          /\ program = <<Expr(0, Absent), Expr(0, IntLit(5)),
                         Let(0, "y", IntLit(3)), Expr(0, Ident("y"))>>)

\* `let x 5; let 838383; 1 + 2` was parsed to its end: two failed checks of
\* expect_peek, two errors, and the statement 1 + 2 after them
C27_Witness ==
  /\ Parsed("let x 5; let 838383; 1 + 2")
  /\ Len(parser.errors) = 2
  /\ Len(program) = 3
  /\ program[3] = Expr(0, Infix(IntLit(1), "+", IntLit(2)))

(***************************************************************************)
(* C28: the loops of the parser end.                                       *)
(***************************************************************************)
\* C28: parse_program ends on every input: an iteration of its loop takes
\* a token or ends on Eof, where the loop is left; no iteration of the
\* loops of parse_block_statement, of the argument list, of the parameter
\* list and of the pairs of a hash literal goes round without taking a
\* token; the tokens taken never exceed the tokens of the input; and the
\* loop is left on Eof only.
C28_ParserTerminates ==
  /\ [][parser' # parser =>
          \/ parser'.taken > parser.taken
          \/ parser'.current_token.token_type = "Eof"]_vars
  /\ [](~parser.stuck)
  /\ [](parser.taken <= TokenCount(parser.l.input))
  /\ [](parsing = "parsing" =>
          \/ parser.current_token.token_type = "Eof"
          \/ parser.taken < TokenCount(parser.l.input)
          \/ parser.peek_token.token_type = "Eof")
  /\ [](parsing = "parsed" => parser.current_token.token_type = "Eof")

\* the text that ends inside a block, a function body and an array was
\* parsed to its end
C28_Witness ==
  /\ Parsed("if (x) { let y = ; fn(a) { [1, ")
  /\ parser.taken = 17
  /\ Len(parser.errors) = 2
  /\ ~parser.stuck

====
